---- MODULE Spec2Model ----
(***************************************************************************)
(* Model of the translation synchronization engine of i18n-cli:            *)
(* single_process and batch_process (cmd/translate.go with modes), the     *)
(* per-key decision logic, and the JSON array encoding of values.          *)
(*                                                                         *)
(* A string is a sequence of one-character strings, so that prefixes,      *)
(* case folding, quoting and escaping are computed, not assumed.           *)
(***************************************************************************)
EXTENDS Integers, Sequences, FiniteSets, TLC

\* ---------------------------------------------------------------- bounds
MaxBatchSize == 2
MaxRuns == 2
MaxRequests == 2
MaxClients == 2
MaxChanges == 2

\* ------------------------------------------------------------ the inputs
Keys == {"a", "b"}

Empty == <<>>
Space == <<" ">>
Space2 == <<" ", " ">>
Hello == <<"H", "i">>
\* the text ["a","\""] : a JSON array of the two strings  a  and  "
ArrAQ == <<"[", "\"", "a", "\"", ",", "\"", "\\", "\"", "\"", "]">>
\* the text [x] : bracketed, but not a JSON array of strings
NotArr == <<"[", "x", "]">>

Bang == <<"!", "O">>
Fold == <<"h", "I">>
Old == <<"O", "k">>
Ov == <<"O", "v">>

SrcVals == {Empty, Hello, ArrAQ, NotArr}
TgtVals == {Empty, Bang, Fold, Old}

Maps(D, V) == UNION {[K -> V] : K \in SUBSET D}

NoIndep == [nil |-> TRUE, items |-> <<>>]
Indeps == {NoIndep, [nil |-> FALSE, items |-> [k \in {"a"} |-> Ov]]}

Modes == {"full", "missing", ""}

\* --------------------------------------------------------- string helpers
HasPrefix(s, c) == Len(s) >= 1 /\ s[1] = c
HasSuffix(s, c) == Len(s) >= 1 /\ s[Len(s)] = c

FoldChar(c) ==
    CASE c = "H" -> "h"
      [] c = "I" -> "i"
      [] c = "O" -> "o"
      [] c = "T" -> "t"
      [] OTHER -> c

EqualFold(s, t) ==
    /\ Len(s) = Len(t)
    /\ \A i \in 1..Len(s) : FoldChar(s[i]) = FoldChar(t[i])

\* ------------------------------------------- encoding/json on []string
JFail == [ok |-> FALSE, arr |-> <<>>]

RECURSIVE SkipWs(_, _)
SkipWs(v, i) == IF i <= Len(v) /\ v[i] = " " THEN SkipWs(v, i + 1) ELSE i

\* i is the position after the opening quote
RECURSIVE ParseString(_, _, _)
ParseString(v, i, acc) ==
    IF i > Len(v) THEN [ok |-> FALSE, str |-> <<>>, next |-> i]
    ELSE IF v[i] = "\"" THEN [ok |-> TRUE, str |-> acc, next |-> i + 1]
    ELSE IF v[i] = "\\"
         THEN IF i + 1 <= Len(v) /\ v[i + 1] \in {"\"", "\\"}
              THEN ParseString(v, i + 2, Append(acc, v[i + 1]))
              ELSE [ok |-> FALSE, str |-> <<>>, next |-> i]
    ELSE ParseString(v, i + 1, Append(acc, v[i]))

RECURSIVE ParseElems(_, _, _)
ParseElems(v, i, acc) ==
    LET j == SkipWs(v, i) IN
    IF j > Len(v) \/ v[j] # "\"" THEN JFail
    ELSE LET s == ParseString(v, j + 1, <<>>) IN
         IF ~s.ok THEN JFail
         ELSE LET m == SkipWs(v, s.next) IN
              IF m > Len(v) THEN JFail
              ELSE IF v[m] = "," THEN ParseElems(v, m + 1, Append(acc, s.str))
              ELSE IF v[m] = "]" /\ SkipWs(v, m + 1) > Len(v)
                   THEN [ok |-> TRUE, arr |-> Append(acc, s.str)]
              ELSE JFail

Unmarshal(v) ==
    LET i == SkipWs(v, 1) IN
    IF i > Len(v) \/ v[i] # "[" THEN JFail
    ELSE LET j == SkipWs(v, i + 1) IN
         IF j <= Len(v) /\ v[j] = "]"
         THEN IF SkipWs(v, j + 1) > Len(v) THEN [ok |-> TRUE, arr |-> <<>>] ELSE JFail
         ELSE ParseElems(v, i + 1, <<>>)

RECURSIVE Escape(_)
Escape(s) ==
    IF s = <<>> THEN <<>>
    ELSE IF Head(s) \in {"\"", "\\"} THEN <<"\\", Head(s)>> \o Escape(Tail(s))
    ELSE <<Head(s)>> \o Escape(Tail(s))

Quote_noescape(s) == <<"\"">> \o s \o <<"\"">>

Quote(s) == <<"\"">> \o Escape(s) \o <<"\"">>

RECURSIVE JoinQuoted(_)
JoinQuoted(arr) ==
    IF arr = <<>> THEN <<>>
    ELSE IF Len(arr) = 1 THEN Quote(arr[1])
    ELSE Quote(arr[1]) \o <<",">> \o JoinQuoted(Tail(arr))

Marshal(arr) == <<"[">> \o JoinQuoted(arr) \o <<"]">>

\* a value is array-valued when single_process takes the array branch
IsArray(v) == HasPrefix(v, "[") /\ HasSuffix(v, "]") /\ Unmarshal(v).ok

\* ------------------------------------------------------------ map helpers
Put_alone(m, k, v) == [x \in {k} |-> v]

\* m[k] = v
Put(m, k, v) == [x \in (DOMAIN m) \cup {k} |-> IF x = k THEN v ELSE m[x]]

\* ------------------------------------------------- the translation client
\* the deterministic translation of a text: the prefix T:
T(x) == <<"T", ":">> \o x

ErrRes == [err |-> TRUE, val |-> <<>>]
OkRes(x) == [err |-> FALSE, val |-> T(x)]

\* Handler.Translate returns either an error or a trimmed non-empty text
TranslateResults(text) == {ErrRes, OkRes(text)}

ResSeq_noBreak(arr, f) ==
    [i \in 1..Len(arr) |-> IF i <= f THEN OkRes(arr[i]) ELSE ErrRes]

\* the results the element loop of single_process can observe for an array:
\* f successes followed, when f < n, by one failure (the loop breaks there)
ResSeq(arr, f) ==
    [i \in 1..(IF f < Len(arr) THEN f + 1 ELSE f) |->
        IF i <= f THEN OkRes(arr[i]) ELSE ErrRes]

ArrayResults(arr) == {ResSeq(arr, f) : f \in 0..Len(arr)}

\* Handler.BatchTranslate returns an error, or a list of the input's length
\* whose elements may be empty or a single space
BatchElems(text) == {T(text), Empty, Space, Space2}

BatchLists(texts) ==
    {l \in [1..Len(texts) -> {T(texts[i]) : i \in 1..Len(texts)} \cup {Empty, Space, Space2}] :
        \A i \in 1..Len(texts) : l[i] \in BatchElems(texts[i])}

BatchResults(texts) ==
    {[err |-> TRUE, vals |-> <<>>]} \cup
    {[err |-> FALSE, vals |-> l] : l \in BatchLists(texts)}

\* one entry of the log of client calls
CallRec(op, ks, texts, err, results) ==
    [op |-> op, keys |-> ks, texts |-> texts, err |-> err, results |-> results]

\* ------------------------------------------------- the locale file (parser)
\* LocaleFileContent.JSON and ParseFromJSONFile keep the key -> value mapping
JSON(items) == items
ParseFromJSONFile(doc) == doc

\* ------------------------------------------------------------------ state
VARIABLES
    source,          \* source.LocaleItemsMap
    target0,         \* target.LocaleItemsMap when the call starts
    target,          \* target.LocaleItemsMap
    indep,           \* the independent (override) file, or nil
    mode,            \* the mode string
    batchSize,       \* 0: single_process, otherwise batch_process
    missingKeys,     \* the result of findMissingKeys
    pc,              \* position in the running call
    todo,            \* source keys the range loop has not visited yet
    batch,           \* pending texts of batch_process
    keys,            \* pending keys of batch_process
    failedKeys,      \* failedKeys
    translatedCount, \* translatedCount
    calls,           \* the client calls issued by the running call
    disk,            \* the target file
    sidecar,         \* the failed_keys_ file
    run,             \* number of the running call
    prev,            \* what the previous call left
    h,               \* the gpt.Handler: index, number of clients, mutex
    req,             \* per goroutine, the running request and its local variables
    ext,             \* the client index each external call was given, in order
    fs,              \* the directory tree under the root
    sourceLang,      \* the source language given to ScanDirectory
    ds,              \* the DirectoryStructure, or the error of ScanDirectory
    missingPairs,    \* the result of FindMissingPairs
    pairs,           \* the result of GetPairs
    cmd,             \* position of the command that scans
    changes,         \* number of changes made to the tree since the scan
    drv              \* the command that takes several documents: its documents, files and position

vars == <<source, target0, target, indep, mode, batchSize, missingKeys, pc, todo,
          batch, keys, failedKeys, translatedCount, calls, disk, sidecar, run, prev,
          h, req, ext, fs, sourceLang, ds, missingPairs, pairs, cmd, changes, drv>>

scanVars == <<fs, sourceLang, ds, missingPairs, pairs, cmd, changes>>
dirVars == <<scanVars, drv>>

\* ------------------------------------------------------- scanner (directory)
\* the names a directory listing can hold, in the order os.ReadDir returns them
De == <<"d", "e">>
En == <<"e", "n">>
Fr == <<"f", "r">>
LangOrder == <<De, En, Fr>>
LangNames == {LangOrder[i] : i \in DOMAIN LangOrder}

AJson == <<"a", ".", "j", "s", "o", "n">>
BJson == <<"b", ".", "j", "s", "o", "n">>
CTxt == <<"c", ".", "t", "x", "t">>
FileOrder == <<AJson, BJson, CTxt>>
FileNames == {FileOrder[i] : i \in DOMAIN FileOrder}

Root == <<"l", "o", "c">>
DotJson == <<".", "j", "s", "o", "n">>

\* what a name is in its directory
Kinds == {"none", "file", "dir"}

NoEntries(names) == [n \in names |-> "none"]

\* the contents a language directory starts with
Layouts ==
    {NoEntries(FileNames),
     [n \in FileNames |-> "file"],
     [n \in FileNames |-> IF n = AJson THEN "file" ELSE "none"],
     [n \in FileNames |-> IF n = AJson THEN "dir" ELSE IF n = BJson THEN "file" ELSE "none"]}

\* the directory trees: the root is absent, a file, or a directory of
\* language entries, each absent, a file, or a directory with a layout
FileSystems ==
    {[root |-> k, top |-> NoEntries(LangNames),
      sub |-> [l \in LangNames |-> NoEntries(FileNames)]] : k \in {"none", "file"}}
    \cup
    UNION {{[root |-> "dir", top |-> t, sub |-> s] :
               s \in {x \in [LangNames -> Layouts] :
                         \A l \in LangNames : t[l] # "dir" => x[l] = NoEntries(FileNames)}} :
           t \in [LangNames -> Kinds]}

\* strings.HasSuffix
HasSuffixStr(s, suffix) ==
    /\ Len(s) >= Len(suffix)
    /\ SubSeq(s, Len(s) - Len(suffix) + 1, Len(s)) = suffix

\* filepath.Join of a clean path and one more element
PathJoin(dir, name) == IF name = <<>> THEN dir ELSE dir \o <<"/">> \o name

\* the elements of a path
RECURSIVE Components(_)
Components(p) ==
    IF \A i \in DOMAIN p : p[i] # "/" THEN <<p>>
    ELSE LET i == CHOOSE j \in DOMAIN p : p[j] = "/" /\ \A m \in 1..(j - 1) : p[m] # "/"
         IN <<SubSeq(p, 1, i - 1)>> \o Components(SubSeq(p, i + 1, Len(p)))

\* filepath.Dir
PathDir(p) ==
    LET c == Components(p)
    IN IF Len(c) <= 1 THEN <<".">>
       ELSE SubSeq(p, 1, Len(p) - Len(c[Len(c)]) - 1)

\* what a path names: "none", "file", "dir", or "notdir" when it passes
\* through something that is not a directory
Lookup(f, p) ==
    LET c == Components(p)
    IN IF c[1] # Root \/ f.root = "none" THEN "none"
       ELSE IF Len(c) = 1 THEN f.root
       ELSE IF f.root # "dir" THEN "notdir"
       ELSE IF c[2] \notin LangNames \/ f.top[c[2]] = "none" THEN "none"
       ELSE IF Len(c) = 2 THEN f.top[c[2]]
       ELSE IF f.top[c[2]] # "dir" THEN "notdir"
       ELSE IF c[3] \notin FileNames \/ f.sub[c[2]][c[3]] = "none" THEN "none"
       ELSE IF Len(c) = 3 THEN f.sub[c[2]][c[3]]
       ELSE IF f.sub[c[2]][c[3]] # "dir" THEN "notdir"
       ELSE "none"

\* the error of os.Stat
Stat(f, p) ==
    CASE Lookup(f, p) = "none" -> "ENOENT"
      [] Lookup(f, p) = "notdir" -> "ENOTDIR"
      [] OTHER -> "nil"

\* os.IsNotExist
IsNotExist(err) == err = "ENOENT"

DirEntry(name, kind) == [Name |-> name, IsDir |-> kind = "dir"]

Listing(order, at) ==
    LET present == SelectSeq(order, LAMBDA n : at[n] # "none")
    IN [i \in DOMAIN present |-> DirEntry(present[i], at[present[i]])]

\* os.ReadDir: the entries sorted by name, or an error
ReadDir(f, p) ==
    LET c == Components(p)
    IN IF Lookup(f, p) # "dir" THEN [err |-> TRUE, entries |-> <<>>]
       ELSE IF Len(c) = 1 THEN [err |-> FALSE, entries |-> Listing(LangOrder, f.top)]
       ELSE IF Len(c) = 2 THEN [err |-> FALSE, entries |-> Listing(FileOrder, f.sub[c[2]])]
       ELSE [err |-> FALSE, entries |-> <<>>]

Names(entries) == [i \in DOMAIN entries |-> entries[i].Name]
Range(s) == {s[i] : i \in DOMAIN s}

isLanguage_any(entry) == TRUE
\* ScanDirectory: if entry.IsDir()
isLanguage(entry) == entry.IsDir

\* ScanDirectory: if !file.IsDir() && strings.HasSuffix(file.Name(), ".json")
isJsonFile(entry) == ~entry.IsDir /\ HasSuffixStr(entry.Name, DotJson)

ScanError(msg) == [err |-> msg]

\* the ".json" files of a language directory; none when it cannot be read
JsonFiles(f, dir) == Names(SelectSeq(ReadDir(f, dir).entries, isJsonFile))

ScanDirectory(f, rootDir, sl) ==
    IF IsNotExist(Stat(f, rootDir)) THEN ScanError("directory does not exist")
    ELSE
    LET entries == ReadDir(f, rootDir) IN
    IF entries.err THEN ScanError("ReadDir")
    ELSE
    LET Languages == Names(SelectSeq(entries.entries, isLanguage))
        LanguageDirs == [l \in Range(Languages) |-> PathJoin(rootDir, l)]
    IN
    IF sl \notin DOMAIN LanguageDirs THEN ScanError("source language directory not found")
    ELSE
    LET sourceFiles == ReadDir(f, LanguageDirs[sl]) IN
    IF sourceFiles.err THEN ScanError("ReadDir")
    ELSE IF \E l \in DOMAIN LanguageDirs : ReadDir(f, LanguageDirs[l]).err
    THEN ScanError("ReadDir")
    ELSE
    LET FileTypes == Names(SelectSeq(sourceFiles.entries, isJsonFile))
        found == UNION {Range(JsonFiles(f, LanguageDirs[l])) : l \in DOMAIN LanguageDirs}
    IN [err |-> "nil",
        RootDir |-> rootDir,
        SourceLang |-> sl,
        Languages |-> Languages,
        FileTypes |-> FileTypes,
        LanguageDirs |-> LanguageDirs,
        \* the paths of a type are kept as a set: the directories are
        \* visited in the order of a map iteration
        FilesByType |->
            [t \in Range(FileTypes) \cup found |->
                {PathJoin(LanguageDirs[l], t) :
                    l \in {x \in DOMAIN LanguageDirs : t \in Range(JsonFiles(f, LanguageDirs[x]))}}],
        LanguageFiles |->
            [l \in DOMAIN LanguageDirs |->
                LET js == JsonFiles(f, LanguageDirs[l])
                IN [i \in DOMAIN js |-> PathJoin(LanguageDirs[l], js[i])]]]

FilePair(d, lang, fileType) ==
    [SourceFile |-> PathJoin(d.LanguageDirs[d.SourceLang], fileType),
     TargetFile |-> PathJoin(d.LanguageDirs[lang], fileType),
     SourceLang |-> d.SourceLang,
     TargetLang |-> lang,
     FileType |-> fileType]

RECURSIVE Concat(_)
Concat(ss) == IF ss = <<>> THEN <<>> ELSE Head(ss) \o Concat(Tail(ss))

isTarget_any(lang, sl) == TRUE
\* GetPairs, FindMissingPairs: if lang == ds.SourceLang { continue }
isTarget(lang, sl) == lang # sl

\* GetPairs, FindMissingPairs: the source file of the type is there
hasSource(f, d, fileType) ==
    ~IsNotExist(Stat(f, PathJoin(d.LanguageDirs[d.SourceLang], fileType)))

GetPairs(f, d) ==
    LET langs == SelectSeq(d.Languages, LAMBDA l : isTarget(l, d.SourceLang))
        types == SelectSeq(d.FileTypes, LAMBDA t : hasSource(f, d, t))
    IN Concat([i \in DOMAIN langs |->
                  [j \in DOMAIN types |-> FilePair(d, langs[i], types[j])]])

isMissing_always(f, p) == TRUE
\* FindMissingPairs: the target file is not there
isMissing(f, p) == IsNotExist(Stat(f, p))

FindMissingPairs(f, d) ==
    LET langs == SelectSeq(d.Languages, LAMBDA l : isTarget(l, d.SourceLang))
        types == SelectSeq(d.FileTypes, LAMBDA t : hasSource(f, d, t))
    IN Concat([i \in DOMAIN langs |->
                  LET miss == SelectSeq(types,
                                  LAMBDA t : isMissing(f, PathJoin(d.LanguageDirs[langs[i]], t)))
                  IN [j \in DOMAIN miss |-> FilePair(d, langs[i], miss[j])]])

\* os.MkdirAll of a language directory
MkdirAll(f, dir) ==
    LET c == Components(dir)
    IN IF Len(c) = 2 /\ c[1] = Root /\ f.root = "dir" /\ c[2] \in LangNames
          /\ f.top[c[2]] = "none"
       THEN [f EXCEPT !.top[c[2]] = "dir"]
       ELSE f

\* sync: the directory of every missing target file is created when absent
RECURSIVE makeTargetDirs(_, _)
makeTargetDirs(f, missing) ==
    IF missing = <<>> THEN f
    ELSE LET targetDir == PathDir(Head(missing).TargetFile)
         IN makeTargetDirs(IF IsNotExist(Stat(f, targetDir)) THEN MkdirAll(f, targetDir) ELSE f,
                           Tail(missing))

NoDs == [err |-> "not scanned"]
\* a list no call returns: one pair without names
NoPairs == <<[SourceFile |-> <<>>, TargetFile |-> <<>>, SourceLang |-> <<>>,
             TargetLang |-> <<>>, FileType |-> <<>>]>>

\* the scanner at rest while the rest of the program is exercised
NoDirectory ==
    /\ fs = [root |-> "none", top |-> NoEntries(LangNames),
             sub |-> [l \in LangNames |-> NoEntries(FileNames)]]
    /\ sourceLang = En
    /\ ds = NoDs
    /\ missingPairs = NoPairs
    /\ pairs = NoPairs
    /\ cmd = "start"
    /\ changes = 0

\* ------------------------------------------- commands over several documents
\* a file: absent, present with content that does not parse, or present
\* with the items of a document
NoFile == [exists |-> FALSE, ok |-> FALSE, items |-> << >>]
Malformed == [exists |-> TRUE, ok |-> FALSE, items |-> << >>]
Doc(m) == [exists |-> TRUE, ok |-> TRUE, items |-> m]

\* os.Stat(path) answers "not exist"
NotExist(files, path) == ~files[path].exists

\* LocaleFileContent.ParseContent: reads the file at Path and parses it
ParseContent(file) == [err |-> ~(file.exists /\ file.ok), items |-> file.items]

NoContent == [Code |-> <<>>, Path |-> <<>>, LocaleItemsMap |-> << >>]

LoadPair_sourcePath(fp, files) ==
    LET s == ParseContent(files[fp.SourceFile])
        t == ParseContent(files[fp.TargetFile])
        src == [Code |-> fp.SourceLang, Path |-> fp.SourceFile, LocaleItemsMap |-> s.items]
    IN IF s.err THEN [err |-> TRUE, source |-> NoContent, target |-> NoContent]
       ELSE IF NotExist(files, fp.TargetFile)
       THEN [err |-> FALSE, source |-> src,
             target |-> [Code |-> fp.SourceLang, Path |-> fp.SourceFile,
                         LocaleItemsMap |-> << >>]]
       ELSE IF t.err THEN [err |-> TRUE, source |-> NoContent, target |-> NoContent]
       ELSE [err |-> FALSE, source |-> src,
             target |-> [Code |-> fp.TargetLang, Path |-> fp.TargetFile,
                         LocaleItemsMap |-> t.items]]

\* FilePair.LoadPair
LoadPair(fp, files) ==
    LET s == ParseContent(files[fp.SourceFile])
        t == ParseContent(files[fp.TargetFile])
        src == [Code |-> fp.SourceLang, Path |-> fp.SourceFile, LocaleItemsMap |-> s.items]
    IN IF s.err THEN [err |-> TRUE, source |-> NoContent, target |-> NoContent]
       ELSE IF NotExist(files, fp.TargetFile)
       THEN [err |-> FALSE, source |-> src,
             target |-> [Code |-> fp.TargetLang, Path |-> fp.TargetFile,
                         LocaleItemsMap |-> << >>]]
       ELSE IF t.err THEN [err |-> TRUE, source |-> NoContent, target |-> NoContent]
       ELSE [err |-> FALSE, source |-> src,
             target |-> [Code |-> fp.TargetLang, Path |-> fp.TargetFile,
                         LocaleItemsMap |-> t.items]]

\* filepath.Base of a clean path
Base(p) == LET c == Components(p) IN c[Len(c)]

FailedKeysPrefix == <<"f", "a", "i", "l", "e", "d", "_", "k", "e", "y", "s", "_">>
DotTxt == <<".", "t", "x", "t">>

SidecarName_perPath(path) ==
    FailedKeysPrefix \o [i \in DOMAIN path |-> IF path[i] = "/" THEN "_" ELSE path[i]] \o DotTxt

\* failedKeysFile := "failed_keys_" + filepath.Base(target.Path) + ".txt"
SidecarName(path) == FailedKeysPrefix \o Base(path) \o DotTxt

NoSidecar == [written |-> FALSE, content |-> <<>>]

\* the file of that name in the working directory
SidecarAt(cwd, name) == IF name \in DOMAIN cwd THEN cwd[name] ELSE NoSidecar

\* os.WriteFile in the working directory
WriteSidecar(cwd, name, file) ==
    [n \in (DOMAIN cwd) \cup {name} |-> IF n = name THEN file ELSE cwd[n]]

\* the language directories of the documents the commands are given
DocsDs == [SourceLang |-> En,
           LanguageDirs |-> [l \in LangNames |-> PathJoin(Root, l)]]

\* the lists of pairs given to sync: two languages of one file type, one
\* language of two file types, or two languages of two file types
PairLists ==
    {<<FilePair(DocsDs, De, AJson), FilePair(DocsDs, Fr, AJson)>>,
     <<FilePair(DocsDs, De, AJson), FilePair(DocsDs, De, BJson)>>,
     <<FilePair(DocsDs, De, AJson), FilePair(DocsDs, Fr, BJson)>>}

\* the files of the directory given to translate, each with the source file
DirLists ==
    {<<FilePair(DocsDs, De, AJson), FilePair(DocsDs, De, BJson)>>}

PathsOf(items) ==
    {items[i].SourceFile : i \in DOMAIN items} \cup {items[i].TargetFile : i \in DOMAIN items}

SourceFiles == {Malformed, Doc([k \in {"a"} |-> Hello]), Doc([k \in {"a", "b"} |-> Hello])}
TargetFiles == {NoFile, Malformed, Doc([k \in {"a"} |-> Old])}

\* the files the documents of a list may start as
FilesOf(items) ==
    {f \in [PathsOf(items) -> SourceFiles \cup TargetFiles] :
        \A i \in DOMAIN items : /\ f[items[i].SourceFile] \in SourceFiles
                                /\ f[items[i].TargetFile] \in TargetFiles}

NoLoad == [err |-> TRUE, source |-> NoContent, target |-> NoContent]

\* no such command is running
NoDrv == [kind |-> "none", items |-> <<>>, files |-> << >>, others |-> <<>>, i |-> 0,
          at |-> "end", doc |-> NoContent, last |-> NoLoad, out |-> <<>>, cwd |-> << >>]

NoDriver == drv = NoDrv

\* ----------------------------------------------------------- gpt.Handler
IsSpaceCh(c) == c \in {" ", "\n", "\t"}

RECURSIVE TrimLeft(_)
TrimLeft(s) == IF Len(s) > 0 /\ IsSpaceCh(s[1]) THEN TrimLeft(Tail(s)) ELSE s

RECURSIVE TrimRight(_)
TrimRight(s) ==
    IF Len(s) > 0 /\ IsSpaceCh(s[Len(s)]) THEN TrimRight(SubSeq(s, 1, Len(s) - 1)) ELSE s

TrimSpace_none(s) == s

\* strings.TrimSpace
TrimSpace(s) == TrimRight(TrimLeft(s))

\* what CreateChatCompletion can give back
Resp(kind, status, content) == [kind |-> kind, status |-> status, content |-> content]

\* an APIError with its HTTP status
ApiErrors == {Resp("api", s, Empty) : s \in {429, 500, 501, 502, 503, 504, 400}}

\* context.DeadlineExceeded, an error whose text holds "timeout", another one
OtherErrors == {Resp(k, 0, Empty) : k \in {"deadline", "timeout", "transport"}}

\* a response without choices
NoChoices == Resp("nochoices", 0, Empty)

\* the message content of the first choice
Contents(text) ==
    {T(text), <<" ">> \o T(text) \o <<"\n">>, Empty, Space, Space2}

Responses(text) ==
    ApiErrors \cup OtherErrors \cup {NoChoices}
        \cup {Resp("ok", 200, c) : c \in Contents(text)}

NoErr == [msg |-> "", wraps |-> NoChoices]

\* fmt.Errorf(msg + ": %w", err)
Wrap(msg, resp) == [msg |-> msg, wraps |-> resp]

\* errors made without a cause
Plain(msg) == [msg |-> msg, wraps |-> NoChoices]

Retry(e, seconds) == [done |-> FALSE, val |-> Empty, lastErr |-> e, sleep |-> seconds]

\* the body of the attempt loop of Translate after the external call
attemptOutcome(resp, attempt) ==
    IF resp.kind = "api" /\ resp.status = 429
    THEN Retry(Wrap("API rate limit exceeded", resp), 2 + attempt)
    ELSE IF resp.kind = "api" /\ resp.status \in {500, 502, 503, 504}
    THEN Retry(Wrap("OpenAI server error", resp), 1 + attempt)
    ELSE IF resp.kind \in {"deadline", "timeout"}
    THEN Retry(Wrap("request timed out", resp), 1 + attempt)
    ELSE IF resp.kind \in {"api", "transport"}
    THEN Retry(Wrap("error creating chat completion", resp), 0)
    ELSE IF resp.kind = "ok"
    THEN LET result == TrimSpace(resp.content) IN
         IF result = Empty \/ result = Space
         THEN Retry(Plain("received empty translation"), 0)
         ELSE [done |-> TRUE, val |-> result, lastErr |-> NoErr, sleep |-> 0]
    ELSE Retry(Plain("no choices in response"), 0)

\* ------------------------------------------- BatchTranslate: the response
\* the text {"translations":
ObjOpen ==
    <<"{", "\"", "t", "r", "a", "n", "s", "l", "a", "t", "i", "o", "n", "s", "\"", ":">>

\* the field name of the json tag
TranslationsKey == SubSeq(ObjOpen, 3, 14)

\* the object form of a list of translations
ObjForm(list) == ObjOpen \o Marshal(list) \o <<"}">>

\* a JSON array of strings starting at position i of v; next is the position
\* after its closing bracket
RECURSIVE ParseElemsAt(_, _, _)
ParseElemsAt(v, i, acc) ==
    LET j == SkipWs(v, i) IN
    IF j > Len(v) \/ v[j] # "\"" THEN [ok |-> FALSE, arr |-> <<>>, next |-> j]
    ELSE LET s == ParseString(v, j + 1, <<>>) IN
         IF ~s.ok THEN [ok |-> FALSE, arr |-> <<>>, next |-> j]
         ELSE LET m == SkipWs(v, s.next) IN
              IF m > Len(v) THEN [ok |-> FALSE, arr |-> <<>>, next |-> m]
              ELSE IF v[m] = "," THEN ParseElemsAt(v, m + 1, Append(acc, s.str))
              ELSE IF v[m] = "]" THEN [ok |-> TRUE, arr |-> Append(acc, s.str), next |-> m + 1]
              ELSE [ok |-> FALSE, arr |-> <<>>, next |-> m]

ParseArrayAt(v, i) ==
    LET a == SkipWs(v, i) IN
    IF a > Len(v) \/ v[a] # "[" THEN [ok |-> FALSE, arr |-> <<>>, next |-> a]
    ELSE LET j == SkipWs(v, a + 1) IN
         IF j <= Len(v) /\ v[j] = "]" THEN [ok |-> TRUE, arr |-> <<>>, next |-> j + 1]
         ELSE ParseElemsAt(v, a + 1, <<>>)

\* json.Unmarshal into struct{Translations []string}: an object with one
\* member whose value is an array of strings; a member of another name is
\* ignored, the name is matched without regard to case
UnmarshalObject(v) ==
    LET i == SkipWs(v, 1) IN
    IF i > Len(v) \/ v[i] # "{" THEN JFail
    ELSE LET j == SkipWs(v, i + 1) IN
         IF j > Len(v) THEN JFail
         ELSE IF v[j] = "}"
         THEN IF SkipWs(v, j + 1) > Len(v) THEN [ok |-> TRUE, arr |-> <<>>] ELSE JFail
         ELSE IF v[j] # "\"" THEN JFail
         ELSE LET key == ParseString(v, j + 1, <<>>) IN
              IF ~key.ok THEN JFail
              ELSE LET k == SkipWs(v, key.next) IN
                   IF k > Len(v) \/ v[k] # ":" THEN JFail
                   ELSE LET a == ParseArrayAt(v, k + 1)
                            m == SkipWs(v, a.next)
                        IN IF ~a.ok \/ m > Len(v) \/ v[m] # "}" THEN JFail
                           ELSE IF SkipWs(v, m + 1) <= Len(v) THEN JFail
                           ELSE IF EqualFold(key.str, TranslationsKey)
                           THEN [ok |-> TRUE, arr |-> a.arr]
                           ELSE [ok |-> TRUE, arr |-> <<>>]

\* strings.Index and strings.LastIndex of a character, counted from 1; 0 when
\* the character does not occur
Index(s, ch) ==
    IF \E i \in DOMAIN s : s[i] = ch
    THEN CHOOSE i \in DOMAIN s : s[i] = ch /\ \A j \in 1..(i - 1) : s[j] # ch
    ELSE 0

LastIndex(s, ch) ==
    IF \E i \in DOMAIN s : s[i] = ch
    THEN CHOOSE i \in DOMAIN s : s[i] = ch /\ \A j \in (i + 1)..Len(s) : s[j] # ch
    ELSE 0

lenOk_any(arr, n) == TRUE

\* len(...) == len(texts)
lenOk(arr, n) == Len(arr) = n

Accepted(step, vals) == [ok |-> TRUE, step |-> step, vals |-> vals, err |-> ""]
Rejected(step, err) == [ok |-> FALSE, step |-> step, vals |-> <<>>, err |-> err]

\* the whole content as {"translations": [...]}
parseObject(content, n) ==
    LET r == UnmarshalObject(content) IN
    IF r.ok /\ lenOk(r.arr, n) THEN Accepted(1, r.arr) ELSE Rejected(1, "")

\* the text from the first { to the last } as {"translations": [...]}
parseExtracted(content, n) ==
    LET startIdx == Index(content, "{")
        endIdx == LastIndex(content, "}")
    IN IF startIdx >= 1 /\ endIdx > startIdx
       THEN LET r == UnmarshalObject(SubSeq(content, startIdx, endIdx)) IN
            IF r.ok /\ lenOk(r.arr, n) THEN Accepted(3, r.arr)
            ELSE Rejected(3, "failed to extract valid JSON response")
       ELSE Rejected(3, "response did not contain valid JSON")

parseBareArray_thenExtract(content, n) ==
    LET r == Unmarshal(content) IN
    IF ~r.ok \/ ~lenOk(r.arr, n) THEN parseExtracted(content, n)
    ELSE Accepted(2, r.arr)

\* a bracketed content as a direct array
parseBareArray(content, n) ==
    LET r == Unmarshal(content) IN
    IF ~r.ok \/ ~lenOk(r.arr, n)
    THEN Rejected(2, "failed to parse response as JSON array")
    ELSE Accepted(2, r.arr)

\* "Try different parsing approaches" on the trimmed content
parseResponse(content0, n) ==
    LET content == TrimSpace(content0) IN
    IF parseObject(content, n).ok THEN parseObject(content, n)
    ELSE IF HasPrefix(content, "[") /\ HasSuffix(content, "]")
    THEN parseBareArray(content, n)
    ELSE parseExtracted(content, n)

returnsParsed_nonEmpty(translations) ==
    \A i \in DOMAIN translations : translations[i] # Empty /\ translations[i] # Space

\* "Validate translations": the continue of the loop over the elements goes
\* to the next element, so the parsed list is returned whatever it holds
returnsParsed(translations) == TRUE

\* the body of the attempt loop of BatchTranslate after the external call
batchOutcome(resp, attempt, n) ==
    IF resp.kind = "api" /\ resp.status = 429
    THEN Retry(Wrap("API rate limit exceeded", resp), 2 + attempt)
    ELSE IF resp.kind = "api" /\ resp.status \in {500, 502, 503, 504}
    THEN Retry(Wrap("OpenAI server error", resp), 1 + attempt)
    ELSE IF resp.kind \in {"deadline", "timeout"}
    THEN Retry(Wrap("request timed out", resp), 1 + attempt)
    ELSE IF resp.kind \in {"api", "transport"}
    THEN Retry(Wrap("error creating chat completion", resp), 0)
    ELSE IF resp.kind = "ok"
    THEN LET p == parseResponse(resp.content, n) IN
         IF ~p.ok THEN Retry(Plain(p.err), 0)
         ELSE IF returnsParsed(p.vals)
         THEN [done |-> TRUE, val |-> p.vals, lastErr |-> NoErr, sleep |-> 0]
         ELSE Retry(Plain("received empty translation for text"), 0)
    ELSE Retry(Plain("no choices in response"), 0)

\* the lists of texts given to BatchTranslate
BatchTexts == {<<Hello>>, <<Hello, Bang>>}

Good(texts) == [i \in DOMAIN texts |-> T(texts[i])]

\* the same list with its first element replaced
WithFirst(list, x) == [i \in DOMAIN list |-> IF i = 1 THEN x ELSE list[i]]

\* the message contents the service may send for a list of texts
BatchContents(texts) ==
    LET good == Good(texts) IN
    {ObjForm(good),
     <<" ">> \o ObjForm(good) \o <<"\n">>,
     Marshal(good),
     <<"O", "k", ":", " ">> \o ObjForm(good) \o <<".">>,
     ObjForm(Append(good, Empty)),
     Marshal(Tail(good)),
     <<"[">> \o ObjForm(good) \o <<"]">>,
     <<"n", "o">>,
     ObjForm(WithFirst(good, Empty)),
     Marshal(WithFirst(good, Space2)),
     Empty}

BatchResponses(texts) ==
    ApiErrors \cup OtherErrors \cup {NoChoices}
        \cup {Resp("ok", 200, c) : c \in BatchContents(texts)}

moreAttempts_four(attempt) == attempt < 4

\* the condition of the attempt loop
moreAttempts(attempt) == attempt < 3

NoRet == [err |-> FALSE, val |-> Empty, cause |-> NoErr]

\* the goroutines that share the handler
Callers == {1, 2}

\* no request is running
IdleReq(id) ==
    [id |-> id, op |-> "", pc |-> "idle", text |-> Empty, texts |-> <<>>,
     attempt |-> 0, lastErr |-> NoErr, client |-> 0, tries |-> <<>>,
     slept |-> <<>>, ret |-> NoRet]

\* gpt.New with n keys, before any request
HandlerInit(ns) ==
    /\ h \in [index : {0}, clients : ns, locked : {FALSE}]
    /\ req = [c \in Callers |-> IdleReq(0)]
    /\ ext = <<>>

\* ------------------------------------------------------ decision helpers
findMissingKeys_all(src, tgt) == DOMAIN src

\* the keys of the source that have no entry in the target
findMissingKeys(src, tgt) == {k \in DOMAIN src : k \notin DOMAIN tgt}

fillMissing_nonEmpty(src, tgt, missing) ==
    LET fill == {k \in missing \cap DOMAIN src : src[k] # Empty}
    IN [x \in (DOMAIN tgt) \cup fill |-> IF x \in fill THEN Empty ELSE tgt[x]]

fillMissing_none(src, tgt, missing) == tgt

\* the keys of the missing set are initialised with the empty string
fillMissing(src, tgt, missing) ==
    [x \in (DOMAIN tgt) \cup (missing \cap DOMAIN src) |->
        IF x \in missing \cap DOMAIN src THEN Empty ELSE tgt[x]]

applyIndep_skip(tgt, ind, k) == tgt

\* target.LocaleItemsMap[k] = v  when the independent map has the key
applyIndep(tgt, ind, k) ==
    IF k \in DOMAIN ind.items THEN Put(tgt, k, ind.items[k]) ELSE tgt

fullRule_single_nobang(tv) == Len(tv) = 0

fullRule_single(tv) == Len(tv) = 0 \/ tv[1] = "!"

fullRule_batch(tv, v) == (EqualFold(tv, v) \/ Len(tv) = 0) \/ tv[1] = "!"

missingRule_all(k, missing) == TRUE

missingRule(k, missing) == k \in missing

decide_single_defaultFull(k, v, tgt, ind, md, missing) ==
    IF k \notin DOMAIN tgt THEN [need |-> TRUE, target |-> tgt]
    ELSE IF ~ind.nil THEN [need |-> FALSE, target |-> applyIndep(tgt, ind, k)]
    ELSE IF md = "missing" THEN [need |-> missingRule(k, missing), target |-> tgt]
    ELSE [need |-> fullRule_single(tgt[k]), target |-> tgt]

\* the decision of single_process for a key with a non-empty source value
decide_single(k, v, tgt, ind, md, missing) ==
    IF k \notin DOMAIN tgt THEN [need |-> TRUE, target |-> tgt]
    ELSE IF ~ind.nil THEN [need |-> FALSE, target |-> applyIndep(tgt, ind, k)]
    ELSE IF md = "full" THEN [need |-> fullRule_single(tgt[k]), target |-> tgt]
    ELSE IF md = "missing" THEN [need |-> missingRule(k, missing), target |-> tgt]
    ELSE [need |-> FALSE, target |-> tgt]

\* the decision of batch_process for a key with a non-empty source value
decide_batch(k, v, tgt, ind, md, missing) ==
    IF k \notin DOMAIN tgt THEN [need |-> TRUE, target |-> tgt]
    ELSE IF ~ind.nil THEN [need |-> FALSE, target |-> applyIndep(tgt, ind, k)]
    ELSE IF md = "full" THEN [need |-> fullRule_batch(tgt[k], v), target |-> tgt]
    ELSE IF md = "missing" THEN [need |-> missingRule(k, missing), target |-> tgt]
    ELSE [need |-> FALSE, target |-> tgt]

IsEmptyResult(r) == r = Empty \/ r = Space

afterKey_return(success) == IF success THEN "loop" ELSE "aborted"

\* a key that failed is recorded and the range loop goes on
afterKey(success) == "loop"

\* "_ = sendBatch()": the error of a flush is dropped and the loop goes on
afterFlush(err) == "loop"

translateKey_again(k, v, tgt) ==
    {[target |-> IF r.err \/ IsEmptyResult(r.val) THEN tgt ELSE Put(tgt, k, r.val),
      calls |-> <<CallRec("Translate", <<k>>, <<v>>, TRUE, <<Empty>>),
                 CallRec("Translate", <<k>>, <<v>>, r.err, <<r.val>>)>>,
      success |-> ~(r.err \/ IsEmptyResult(r.val))] :
     r \in TranslateResults(v)}

\* the translation of one selected key by single_process: the outcomes are
\* the new target map, the calls issued and translationSuccess.
\* json.Marshal of a []string cannot fail.
translateKey(k, v, tgt) ==
    IF IsArray(v)
    THEN LET stringArray == Unmarshal(v).arr IN
         {LET arrayTranslationFailed ==
                  \E i \in DOMAIN rs : rs[i].err \/ IsEmptyResult(rs[i].val)
              translatedArray ==
                  [i \in 1..Len(stringArray) |->
                      IF i \in DOMAIN rs THEN rs[i].val ELSE Empty]
          IN [target |-> IF arrayTranslationFailed THEN tgt
                         ELSE Put(tgt, k, Marshal(translatedArray)),
              calls |-> [i \in DOMAIN rs |->
                          CallRec("Translate", <<k>>, <<stringArray[i]>>,
                                  rs[i].err, <<rs[i].val>>)],
              success |-> ~arrayTranslationFailed] :
          rs \in ArrayResults(stringArray)}
    ELSE {[target |-> IF r.err \/ IsEmptyResult(r.val) THEN tgt ELSE Put(tgt, k, r.val),
           calls |-> <<CallRec("Translate", <<k>>, <<v>>, r.err, <<r.val>>)>>,
           success |-> ~(r.err \/ IsEmptyResult(r.val))] :
          r \in TranslateResults(v)}

RECURSIVE applyResults(_, _, _, _, _)
applyResults(tgt, fk, ks, vals, i) ==
    IF i > Len(vals) THEN [target |-> tgt, failedKeys |-> fk]
    ELSE IF IsEmptyResult(vals[i])
         THEN applyResults(tgt, Append(fk, ks[i]), ks, vals, i + 1)
    ELSE applyResults(Put(tgt, ks[i], vals[i]), fk, ks, vals, i + 1)

Reverse(s) == [i \in 1..Len(s) |-> s[Len(s) + 1 - i]]

mergeResults_reversed(tgt, fk, ks, vals) == applyResults(tgt, fk, ks, Reverse(vals), 1)

\* the loop of sendBatch over the results of a successful BatchTranslate
mergeResults(tgt, fk, ks, vals) == applyResults(tgt, fk, ks, vals, 1)

sendBatch_allOrNothing(bt, ks, tgt, fk, r) ==
    IF r.err
    THEN [batch |-> bt, keys |-> ks, target |-> tgt, failedKeys |-> fk \o ks]
    ELSE IF \E j \in DOMAIN r.vals : IsEmptyResult(r.vals[j])
    THEN [batch |-> <<>>, keys |-> <<>>, target |-> tgt, failedKeys |-> fk \o ks]
    ELSE LET m == mergeResults(tgt, fk, ks, r.vals) IN
         [batch |-> <<>>, keys |-> <<>>, target |-> m.target, failedKeys |-> m.failedKeys]

\* sendBatch on a non-empty batch, r being what BatchTranslate returned
sendBatch(bt, ks, tgt, fk, r) ==
    IF r.err
    THEN [batch |-> bt, keys |-> ks, target |-> tgt, failedKeys |-> fk \o ks]
    ELSE LET m == mergeResults(tgt, fk, ks, r.vals) IN
         [batch |-> <<>>, keys |-> <<>>, target |-> m.target, failedKeys |-> m.failedKeys]

\* strings.Join of one-character keys: the keys with sep between them
RECURSIVE Join(_, _)
Join(s, sep) ==
    IF Len(s) = 0 THEN <<>>
    ELSE IF Len(s) = 1 THEN <<s[1]>>
    ELSE <<s[1], sep>> \o Join(Tail(s), sep)

\* the failed keys are saved, one per line, only when there are any
report(sc, fk) ==
    IF Len(fk) > 0 THEN [written |-> TRUE, content |-> Join(fk, "\n")] ELSE sc

\* the counts of the closing line of a call: total, translated, failed
Summary ==
    [total |-> Cardinality(DOMAIN source),
     translated |-> IF batchSize = 0 THEN translatedCount
                    ELSE translatedCount - Len(failedKeys),
     failed |-> Len(failedKeys)]

NoPrev == [target |-> <<>>, failedKeys |-> <<>>, calls |-> <<>>]

\* ------------------------------------------------------------------- Init
InitWith(modes, sizes) ==
    /\ source \in Maps(Keys, SrcVals)
    /\ target0 \in Maps(Keys, TgtVals)
    /\ target = target0
    /\ indep \in Indeps
    /\ mode \in modes
    /\ batchSize \in sizes
    /\ missingKeys = {}
    /\ pc = "start"
    /\ todo = {}
    /\ batch = <<>>
    /\ keys = <<>>
    /\ failedKeys = <<>>
    /\ translatedCount = 0
    /\ calls = <<>>
    /\ disk = [writes |-> 0, items |-> JSON(target0)]
    /\ sidecar = [written |-> FALSE, content |-> <<>>]
    /\ run = 1
    /\ prev = NoPrev
    /\ HandlerInit({1})
    /\ NoDirectory
    /\ NoDriver

Init == InitWith(Modes, 0..MaxBatchSize)

\* ---------------------------------------------------------- single_process
single_begin ==
    /\ pc = "start"
    /\ batchSize = 0
    /\ missingKeys' = findMissingKeys(source, target)
    /\ target' = fillMissing(source, target, findMissingKeys(source, target))
    /\ todo' = DOMAIN source
    /\ pc' = "loop"
    /\ UNCHANGED <<dirVars, h, req, ext, source, target0, indep, mode, batchSize, batch, keys, failedKeys,
                   translatedCount, calls, disk, sidecar, run, prev>>

single_visit(k) ==
    /\ pc = "loop"
    /\ batchSize = 0
    /\ k \in todo
    /\ todo' = todo \ {k}
    /\ LET v == source[k]
           d == decide_single(k, v, target, indep, mode, missingKeys)
       IN IF Len(v) = 0
          THEN UNCHANGED <<target, failedKeys, translatedCount, calls, pc>>
          ELSE IF ~d.need
          THEN /\ target' = d.target
               /\ UNCHANGED <<failedKeys, translatedCount, calls, pc>>
          ELSE \E o \in translateKey(k, v, d.target) :
                   /\ target' = o.target
                   /\ pc' = afterKey(o.success)
                   /\ calls' = calls \o o.calls
                   /\ translatedCount' = IF o.success THEN translatedCount + 1
                                         ELSE translatedCount
                   /\ failedKeys' = IF o.success THEN failedKeys
                                    ELSE Append(failedKeys, k)
    /\ UNCHANGED <<dirVars, h, req, ext, source, target0, indep, mode, batchSize, missingKeys, batch, keys,
                   disk, sidecar, run, prev>>

single_finish ==
    /\ pc = "loop"
    /\ batchSize = 0
    /\ todo = {}
    /\ sidecar' = report(sidecar, failedKeys)
    /\ \E ok \in BOOLEAN :
           IF ok
           THEN /\ disk' = [writes |-> disk.writes + 1, items |-> JSON(target)]
                /\ pc' = "done"
           ELSE /\ pc' = "ioerr"
                /\ UNCHANGED disk
    /\ UNCHANGED <<dirVars, h, req, ext, source, target0, target, indep, mode, batchSize, missingKeys, todo,
                   batch, keys, failedKeys, translatedCount, calls, run, prev>>

\* ----------------------------------------------------------- batch_process
batch_begin ==
    /\ pc = "start"
    /\ batchSize > 0
    /\ missingKeys' = findMissingKeys(source, target)
    /\ target' = fillMissing(source, target, findMissingKeys(source, target))
    /\ todo' = DOMAIN source
    /\ pc' = "loop"
    /\ UNCHANGED <<dirVars, h, req, ext, source, target0, indep, mode, batchSize, batch, keys, failedKeys,
                   translatedCount, calls, disk, sidecar, run, prev>>

batch_visit(k) ==
    /\ pc = "loop"
    /\ batchSize > 0
    /\ k \in todo
    /\ todo' = todo \ {k}
    /\ LET v == source[k]
           d == decide_batch(k, v, target, indep, mode, missingKeys)
           b1 == Append(batch, v)
           k1 == Append(keys, k)
       IN IF Len(v) = 0
          THEN UNCHANGED <<target, batch, keys, failedKeys, translatedCount, calls, pc>>
          ELSE IF ~d.need
          THEN /\ target' = d.target
               /\ UNCHANGED <<batch, keys, failedKeys, translatedCount, calls, pc>>
          ELSE /\ translatedCount' = translatedCount + 1
               /\ IF Len(b1) >= batchSize
                  THEN \E r \in BatchResults(b1) :
                           LET s == sendBatch(b1, k1, d.target, failedKeys, r) IN
                           /\ batch' = s.batch
                           /\ keys' = s.keys
                           /\ target' = s.target
                           /\ failedKeys' = s.failedKeys
                           /\ calls' = Append(calls,
                                  CallRec("BatchTranslate", k1, b1, r.err, r.vals))
                           /\ pc' = afterFlush(r.err)
                  ELSE /\ batch' = b1
                       /\ keys' = k1
                       /\ target' = d.target
                       /\ UNCHANGED <<failedKeys, calls, pc>>
    /\ UNCHANGED <<dirVars, h, req, ext, source, target0, indep, mode, batchSize, missingKeys,
                   disk, sidecar, run, prev>>

\* "Process any remaining items"
batch_flush_rest ==
    /\ pc = "loop"
    /\ batchSize > 0
    /\ todo = {}
    /\ pc' = "report"
    /\ IF Len(batch) > 0
       THEN \E r \in BatchResults(batch) :
                LET s == sendBatch(batch, keys, target, failedKeys, r) IN
                /\ batch' = s.batch
                /\ keys' = s.keys
                /\ target' = s.target
                /\ failedKeys' = s.failedKeys
                /\ calls' = Append(calls,
                       CallRec("BatchTranslate", keys, batch, r.err, r.vals))
       ELSE UNCHANGED <<batch, keys, target, failedKeys, calls>>
    /\ UNCHANGED <<dirVars, h, req, ext, source, target0, indep, mode, batchSize, missingKeys, todo,
                   translatedCount, disk, sidecar, run, prev>>

batch_finish ==
    /\ pc = "report"
    /\ batchSize > 0
    /\ sidecar' = report(sidecar, failedKeys)
    /\ \E ok \in BOOLEAN :
           IF ok
           THEN /\ disk' = [writes |-> disk.writes + 1, items |-> JSON(target)]
                /\ pc' = "done"
           ELSE /\ pc' = "ioerr"
                /\ UNCHANGED disk
    /\ UNCHANGED <<dirVars, h, req, ext, source, target0, target, indep, mode, batchSize, missingKeys, todo,
                   batch, keys, failedKeys, translatedCount, calls, run, prev>>

\* ------------------------------------------------------- a following call
Left == [target |-> target, failedKeys |-> failedKeys, calls |-> calls]

\* the command is run again on the files the previous run left
run_again ==
    /\ pc = "done"
    /\ run < MaxRuns
    /\ run' = run + 1
    /\ prev' = Left
    /\ target0' = ParseFromJSONFile(disk.items)
    /\ target' = ParseFromJSONFile(disk.items)
    /\ batchSize' \in 0..MaxBatchSize
    /\ disk' = [writes |-> 0, items |-> disk.items]
    /\ missingKeys' = {}
    /\ pc' = "start"
    /\ todo' = {}
    /\ batch' = <<>>
    /\ keys' = <<>>
    /\ failedKeys' = <<>>
    /\ translatedCount' = 0
    /\ calls' = <<>>
    /\ UNCHANGED <<dirVars, h, req, ext, source, indep, mode, sidecar>>

\* the same source, target and mode are given to the other strategy
other_strategy ==
    /\ pc = "done"
    /\ run = 1
    /\ batchSize = 0
    /\ run' = 2
    /\ prev' = Left
    /\ target' = target0
    /\ batchSize' \in 1..MaxBatchSize
    /\ disk' = [writes |-> 0, items |-> JSON(target0)]
    /\ missingKeys' = {}
    /\ pc' = "start"
    /\ todo' = {}
    /\ batch' = <<>>
    /\ keys' = <<>>
    /\ failedKeys' = <<>>
    /\ translatedCount' = 0
    /\ calls' = <<>>
    /\ UNCHANGED <<dirVars, h, req, ext, source, target0, indep, mode, sidecar>>

\* the same strategy is given the same source, target, mode and batch size
\* once more; the range loop over the source map may take another order
other_order ==
    /\ pc = "done"
    /\ run = 1
    /\ run' = 2
    /\ prev' = Left
    /\ target' = target0
    /\ disk' = [writes |-> 0, items |-> JSON(target0)]
    /\ missingKeys' = {}
    /\ pc' = "start"
    /\ todo' = {}
    /\ batch' = <<>>
    /\ keys' = <<>>
    /\ failedKeys' = <<>>
    /\ translatedCount' = 0
    /\ calls' = <<>>
    /\ UNCHANGED <<dirVars, h, req, ext, source, target0, indep, mode, batchSize, sidecar>>

\* --------------------------------------------------------- specifications
Process ==
    \/ single_begin
    \/ \E k \in Keys : single_visit(k)
    \/ single_finish
    \/ batch_begin
    \/ \E k \in Keys : batch_visit(k)
    \/ batch_flush_rest
    \/ batch_finish

Next == Process

Spec == Init /\ [][Next]_vars

\* a call whose client calls return takes its next step
InitFair == InitWith({"full"}, 0..MaxBatchSize) /\ indep.nil /\ target0 = << >>
SpecFair == InitFair /\ [][Next]_vars /\ WF_vars(Next)

\* two runs in missing mode
InitRerun == InitWith({"missing"}, 0..MaxBatchSize)

NextRerun == Process \/ run_again

SpecRerun == InitRerun /\ [][NextRerun]_vars

\* single_process, then batch_process on the same inputs
InitEquiv == InitWith({"full", "missing"}, {0})

NextEquiv == Process \/ other_strategy

SpecEquiv == InitEquiv /\ [][NextEquiv]_vars

\* the same call twice in missing mode, the keys visited in any order each time
InitOrder == InitWith({"missing"}, 0..MaxBatchSize)

NextOrder == Process \/ other_order

SpecOrder == InitOrder /\ [][NextOrder]_vars

\* ------------------------------------------------------ Handler.Translate
\* texts given to Translate
ReqTexts == {Hello, Bang}

Translate_call(c, text) ==
    /\ req[c].pc \in {"idle", "returned"}
    /\ req[c].id < MaxRequests
    /\ req' = [req EXCEPT ![c] = [IdleReq(req[c].id + 1) EXCEPT
                                     !.op = "Translate", !.pc = "lock", !.text = text]]
    /\ UNCHANGED <<h, ext>>
    /\ UNCHANGED <<dirVars, source, target0, target, indep, mode, batchSize, missingKeys, pc,
                   todo, batch, keys, failedKeys, translatedCount, calls, disk,
                   sidecar, run, prev>>

canLock_always(locked) == TRUE

\* h.Lock() goes through when no other goroutine holds the mutex
canLock(locked) == ~locked

nextIndex_stay(index, n) == index

\* h.index = (h.index + 1) % len(h.clients)
nextIndex(index, n) == (index + 1) % n

\* h.Lock(); client := h.clients[h.index]
Handler_select(c) ==
    /\ req[c].pc = "lock"
    /\ canLock(h.locked)
    /\ h' = [h EXCEPT !.locked = TRUE]
    /\ req' = [req EXCEPT ![c].pc = "advance", ![c].client = h.index]
    /\ ext' = Append(ext, h.index)
    /\ UNCHANGED <<dirVars, source, target0, target, indep, mode, batchSize, missingKeys, pc,
                   todo, batch, keys, failedKeys, translatedCount, calls, disk,
                   sidecar, run, prev>>

\* h.index = (h.index + 1) % len(h.clients); h.Unlock()
Handler_advance(c) ==
    /\ req[c].pc = "advance"
    /\ h' = [h EXCEPT !.index = nextIndex(h.index, h.clients), !.locked = FALSE]
    /\ req' = [req EXCEPT ![c].pc = "call"]
    /\ UNCHANGED ext
    /\ UNCHANGED <<dirVars, source, target0, target, indep, mode, batchSize, missingKeys, pc,
                   todo, batch, keys, failedKeys, translatedCount, calls, disk,
                   sidecar, run, prev>>

\* the request record after an attempt with outcome o: return the value, go
\* round the loop again, or return the error when the attempts are used up
afterAttempt(r, resp, o) ==
    LET tried == [r EXCEPT !.tries = Append(@, resp)] IN
    IF o.done
    THEN [tried EXCEPT !.pc = "returned",
                       !.ret = [err |-> FALSE, val |-> o.val, cause |-> NoErr]]
    ELSE [tried EXCEPT
             !.lastErr = o.lastErr,
             !.slept = Append(@, o.sleep),
             !.attempt = @ + 1,
             !.pc = IF moreAttempts(r.attempt + 1) THEN "lock" ELSE "returned",
             !.ret = IF moreAttempts(r.attempt + 1) THEN @
                     ELSE [err |-> TRUE, val |-> Empty, cause |-> o.lastErr]]

\* CreateChatCompletion returns and the rest of the loop body runs
Translate_respond(c, resp) ==
    /\ req[c].pc = "call"
    /\ req[c].op = "Translate"
    /\ resp \in Responses(req[c].text)
    /\ req' = [req EXCEPT ![c] =
                  afterAttempt(req[c], resp, attemptOutcome(resp, req[c].attempt))]
    /\ UNCHANGED <<h, ext>>
    /\ UNCHANGED <<dirVars, source, target0, target, indep, mode, batchSize, missingKeys, pc,
                   todo, batch, keys, failedKeys, translatedCount, calls, disk,
                   sidecar, run, prev>>

\* ------------------------------------------------- Handler.BatchTranslate
BatchTranslate_call(c, texts) ==
    /\ req[c].pc \in {"idle", "returned"}
    /\ req[c].id < MaxRequests
    /\ req' = [req EXCEPT ![c] = [IdleReq(req[c].id + 1) EXCEPT
                                     !.op = "BatchTranslate", !.pc = "lock",
                                     !.texts = texts]]
    /\ UNCHANGED <<h, ext>>
    /\ UNCHANGED <<dirVars, source, target0, target, indep, mode, batchSize, missingKeys, pc,
                   todo, batch, keys, failedKeys, translatedCount, calls, disk,
                   sidecar, run, prev>>

\* CreateChatCompletion returns and the rest of the loop body runs
BatchTranslate_respond(c, resp) ==
    /\ req[c].pc = "call"
    /\ req[c].op = "BatchTranslate"
    /\ resp \in BatchResponses(req[c].texts)
    /\ req' = [req EXCEPT ![c] =
                  afterAttempt(req[c], resp,
                               batchOutcome(resp, req[c].attempt, Len(req[c].texts)))]
    /\ UNCHANGED <<h, ext>>
    /\ UNCHANGED <<dirVars, source, target0, target, indep, mode, batchSize, missingKeys, pc,
                   todo, batch, keys, failedKeys, translatedCount, calls, disk,
                   sidecar, run, prev>>

\* the scheduler at rest while the handler is exercised
NoDocument ==
    /\ source = << >>
    /\ target0 = << >>
    /\ target = << >>
    /\ indep = NoIndep
    /\ mode = "missing"
    /\ batchSize = 0
    /\ missingKeys = {}
    /\ pc = "start"
    /\ todo = {}
    /\ batch = <<>>
    /\ keys = <<>>
    /\ failedKeys = <<>>
    /\ translatedCount = 0
    /\ calls = <<>>
    /\ disk = [writes |-> 0, items |-> JSON(<< >>)]
    /\ sidecar = [written |-> FALSE, content |-> <<>>]
    /\ run = 1
    /\ prev = NoPrev

InitClient == NoDocument /\ HandlerInit(1..MaxClients) /\ NoDirectory /\ NoDriver

\* one goroutine uses the handler
NextClient ==
    \/ \E text \in ReqTexts : Translate_call(1, text)
    \/ Handler_select(1)
    \/ Handler_advance(1)
    \/ \E resp \in UNION {Responses(text) : text \in ReqTexts} : Translate_respond(1, resp)
    \/ \E texts \in BatchTexts : BatchTranslate_call(1, texts)
    \/ \E resp \in UNION {BatchResponses(texts) : texts \in BatchTexts} :
           BatchTranslate_respond(1, resp)

SpecClient == InitClient /\ [][NextClient]_vars

\* what the service answers while several goroutines use the handler
ConcResponses == {Resp("api", 429, Empty), Resp("ok", 200, T(Hello)),
                  Resp("ok", 200, ObjForm(<<T(Hello)>>))}

\* the goroutines of Callers share the handler
NextConc ==
    \E c \in Callers :
        \/ Translate_call(c, Hello)
        \/ BatchTranslate_call(c, <<Hello>>)
        \/ Handler_select(c)
        \/ Handler_advance(c)
        \/ \E resp \in ConcResponses : Translate_respond(c, resp)
        \/ \E resp \in ConcResponses : BatchTranslate_respond(c, resp)

SpecConc == InitClient /\ [][NextConc]_vars

\* ----------------------------------------------------------------- scanner
progVars == <<source, target0, target, indep, mode, batchSize, missingKeys, pc, todo,
              batch, keys, failedKeys, translatedCount, calls, disk, sidecar, run, prev,
              h, req, ext, drv>>

\* sync, status: ds, err := scanner.ScanDirectory(rootDir, sourceLang)
ScanDirectory_call ==
    /\ cmd = "start"
    /\ ds' = ScanDirectory(fs, Root, sourceLang)
    /\ cmd' = IF ds'.err = "nil" THEN "scanned" ELSE "failed"
    /\ UNCHANGED <<fs, sourceLang, missingPairs, pairs, changes, progVars>>

\* between the scan and the listing of the pairs somebody else writes a
\* file into a language directory,
WriteFile(l, n) ==
    /\ cmd = "scanned"
    /\ changes < MaxChanges
    /\ fs.top[l] = "dir"
    /\ fs.sub[l][n] = "none"
    /\ fs' = [fs EXCEPT !.sub[l][n] = "file"]
    /\ changes' = changes + 1
    /\ UNCHANGED <<sourceLang, ds, missingPairs, pairs, cmd, progVars>>

\* removes an entry of a language directory,
Remove(l, n) ==
    /\ cmd = "scanned"
    /\ changes < MaxChanges
    /\ fs.top[l] = "dir"
    /\ fs.sub[l][n] # "none"
    /\ fs' = [fs EXCEPT !.sub[l][n] = "none"]
    /\ changes' = changes + 1
    /\ UNCHANGED <<sourceLang, ds, missingPairs, pairs, cmd, progVars>>

\* or removes a language directory with what it holds
RemoveAll(l) ==
    /\ cmd = "scanned"
    /\ changes < MaxChanges
    /\ fs.top[l] = "dir"
    /\ fs' = [fs EXCEPT !.top[l] = "none", !.sub[l] = NoEntries(FileNames)]
    /\ changes' = changes + 1
    /\ UNCHANGED <<sourceLang, ds, missingPairs, pairs, cmd, progVars>>

\* sync: missingPairs := ds.FindMissingPairs()
FindMissingPairs_call ==
    /\ cmd = "scanned"
    /\ missingPairs' = FindMissingPairs(fs, ds)
    /\ cmd' = "found"
    /\ UNCHANGED <<fs, sourceLang, ds, pairs, changes, progVars>>

\* sync: the loop over missingPairs that creates the target directories
sync_mkdirs ==
    /\ cmd = "found"
    /\ fs' = makeTargetDirs(fs, missingPairs)
    /\ cmd' = "made"
    /\ UNCHANGED <<sourceLang, ds, missingPairs, pairs, changes, progVars>>

\* sync (after the directories are made), status (after the scan):
\* pairs, err := ds.GetPairs()
GetPairs_call ==
    /\ cmd \in {"scanned", "made"}
    /\ pairs' = GetPairs(fs, ds)
    /\ cmd' = "paired"
    /\ UNCHANGED <<fs, sourceLang, ds, missingPairs, changes, progVars>>

InitScan ==
    /\ NoDocument
    /\ HandlerInit({1})
    /\ fs \in FileSystems
    /\ sourceLang \in LangNames
    /\ ds = NoDs
    /\ missingPairs = NoPairs
    /\ pairs = NoPairs
    /\ cmd = "start"
    /\ changes = 0
    /\ NoDriver

NextScan ==
    \/ ScanDirectory_call
    \/ \E l \in LangNames, n \in FileNames : WriteFile(l, n)
    \/ \E l \in LangNames, n \in FileNames : Remove(l, n)
    \/ \E l \in LangNames : RemoveAll(l)
    \/ FindMissingPairs_call
    \/ sync_mkdirs
    \/ GetPairs_call

SpecScan == InitScan /\ [][NextScan]_vars

\* ------------------------------------------- commands over several documents
callVars == <<source, target0, target, indep, missingKeys, pc, todo, batch, keys,
              failedKeys, translatedCount, calls, disk, sidecar, run, prev>>

\* single_process or batch_process is entered with a source, a target and
\* the path of the target; the failed_keys_ file it may write is the one
\* the working directory holds under the name made from that path
StartCall(src, tgt, path) ==
    /\ source' = src
    /\ target0' = tgt
    /\ target' = tgt
    /\ indep' = NoIndep
    /\ missingKeys' = {}
    /\ pc' = "start"
    /\ todo' = {}
    /\ batch' = <<>>
    /\ keys' = <<>>
    /\ failedKeys' = <<>>
    /\ translatedCount' = 0
    /\ calls' = <<>>
    /\ disk' = [writes |-> 0, items |-> JSON(tgt)]
    /\ sidecar' = SidecarAt(drv.cwd, SidecarName(path))
    /\ UNCHANGED <<run, prev>>

\* what a command keeps of one document: whether it was loaded, whether the
\* call returned an error, and the keys the call reported as failed
Outcome(path, loaded, err, fk) ==
    [path |-> path, loaded |-> loaded, err |-> err, failedKeys |-> fk]

\* the files after the call on the document in hand has returned
FilesAfter == IF pc = "done" THEN [drv.files EXCEPT ![drv.doc.Path] = Doc(disk.items)]
              ELSE drv.files
CwdAfter == IF sidecar.written
            THEN WriteSidecar(drv.cwd, SidecarName(drv.doc.Path), sidecar)
            ELSE drv.cwd

\* sync, "for _, pair := range filteredPairs": the pair is loaded; a pair
\* that does not load is left ("continue"), a loaded one is given to
\* single_process or batch_process with no override
sync_load ==
    /\ drv.kind = "sync"
    /\ drv.at = "load"
    /\ LET fp == drv.items[drv.i]
           r == LoadPair(fp, drv.files)
       IN IF r.err
          THEN /\ drv' = [drv EXCEPT !.last = r,
                              !.out = Append(@, Outcome(fp.TargetFile, FALSE, FALSE, <<>>)),
                              !.i = @ + 1,
                              !.at = IF drv.i + 1 > Len(drv.items) THEN "end" ELSE "load"]
               /\ UNCHANGED callVars
          ELSE /\ drv' = [drv EXCEPT !.last = r, !.doc = r.target, !.at = "run"]
               /\ StartCall(r.source.LocaleItemsMap, r.target.LocaleItemsMap, r.target.Path)
    /\ UNCHANGED <<scanVars, h, req, ext, mode, batchSize>>

\* sync: the call has returned; its error is printed and the loop goes on
sync_after ==
    /\ drv.kind = "sync"
    /\ drv.at = "run"
    /\ pc \in {"done", "ioerr"}
    /\ drv' = [drv EXCEPT !.files = FilesAfter,
                   !.cwd = CwdAfter,
                   !.out = Append(@, Outcome(drv.doc.Path, TRUE, pc = "ioerr", failedKeys)),
                   !.i = @ + 1,
                   !.at = IF drv.i + 1 > Len(drv.items) THEN "end" ELSE "load"]
    /\ pc' = "idle"
    /\ UNCHANGED <<scanVars, h, req, ext, source, target0, target, indep, mode, batchSize,
                   missingKeys, todo, batch, keys, failedKeys, translatedCount, calls,
                   disk, sidecar, run, prev>>

\* translate, provideFiles: the source is parsed, and each file of the
\* directory that parses becomes one of the others; without a source the
\* command returns
translate_provide ==
    /\ drv.kind = "translate"
    /\ drv.at = "load"
    /\ LET s == ParseContent(drv.files[drv.items[1].SourceFile])
           parses(fp) == ~ParseContent(drv.files[fp.TargetFile]).err
           skipped(fp) == ~parses(fp)
           left == SelectSeq(drv.items, skipped)
       IN IF s.err
          THEN /\ drv' = [drv EXCEPT !.at = "abort"]
               /\ UNCHANGED source
          ELSE /\ drv' = [drv EXCEPT !.others = SelectSeq(drv.items, parses),
                              !.out = [j \in DOMAIN left |->
                                          Outcome(left[j].TargetFile, FALSE, FALSE, <<>>)],
                              !.at = "next"]
               /\ source' = s.items
    /\ UNCHANGED <<scanVars, h, req, ext, target0, target, indep, mode, batchSize,
                   missingKeys, pc, todo, batch, keys, failedKeys, translatedCount, calls,
                   disk, sidecar, run, prev>>

\* translate, "for _, item := range others": the next of the others is
\* given to single_process or batch_process
translate_item ==
    /\ drv.kind = "translate"
    /\ drv.at = "next"
    /\ IF drv.i > Len(drv.others)
       THEN /\ drv' = [drv EXCEPT !.at = "end"]
            /\ UNCHANGED callVars
       ELSE LET fp == drv.others[drv.i]
                t == ParseContent(drv.files[fp.TargetFile])
            IN /\ drv' = [drv EXCEPT !.doc = [Code |-> fp.TargetLang, Path |-> fp.TargetFile,
                                              LocaleItemsMap |-> t.items],
                               !.at = "run"]
               /\ StartCall(source, t.items, fp.TargetFile)
    /\ UNCHANGED <<scanVars, h, req, ext, mode, batchSize>>

\* translate: the call has returned; on an error the command returns
translate_after ==
    /\ drv.kind = "translate"
    /\ drv.at = "run"
    /\ pc \in {"done", "ioerr"}
    /\ drv' = [drv EXCEPT !.files = FilesAfter,
                   !.cwd = CwdAfter,
                   !.out = Append(@, Outcome(drv.doc.Path, TRUE, pc = "ioerr", failedKeys)),
                   !.i = @ + 1,
                   !.at = IF pc = "ioerr" THEN "abort" ELSE "next"]
    /\ pc' = "idle"
    /\ UNCHANGED <<scanVars, h, req, ext, source, target0, target, indep, mode, batchSize,
                   missingKeys, todo, batch, keys, failedKeys, translatedCount, calls,
                   disk, sidecar, run, prev>>

InitDocs ==
    /\ source = << >>
    /\ target0 = << >>
    /\ target = << >>
    /\ indep = NoIndep
    /\ mode \in {"full", "missing"}
    /\ batchSize \in 0..MaxBatchSize
    /\ missingKeys = {}
    /\ pc = "idle"
    /\ todo = {}
    /\ batch = <<>>
    /\ keys = <<>>
    /\ failedKeys = <<>>
    /\ translatedCount = 0
    /\ calls = <<>>
    /\ disk = [writes |-> 0, items |-> JSON(<< >>)]
    /\ sidecar = NoSidecar
    /\ run = 1
    /\ prev = NoPrev
    /\ HandlerInit({1})
    /\ NoDirectory
    /\ \E kind \in {"sync", "translate"} :
           \E items \in IF kind = "sync" THEN PairLists ELSE DirLists :
               \E f \in FilesOf(items) :
                   drv = [kind |-> kind, items |-> items, files |-> f, others |-> <<>>,
                          i |-> 1, at |-> "load", doc |-> NoContent, last |-> NoLoad,
                          out |-> <<>>, cwd |-> << >>]

NextDocs ==
    \/ Process
    \/ sync_load
    \/ sync_after
    \/ translate_provide
    \/ translate_item
    \/ translate_after

SpecDocs == InitDocs /\ [][NextDocs]_vars


\* ------------------------------------------------------------- properties
Returned == pc \in {"done", "ioerr"}

\* the entry of a map for a key: <<value>>, or <<>> when the key is absent
Entry(m, k) == IF k \in DOMAIN m THEN <<m[k]>> ELSE <<>>

CalledIn(cs, k) ==
    \E i \in DOMAIN cs : \E j \in DOMAIN cs[i].keys : cs[i].keys[j] = k

Called(k) == CalledIn(calls, k)

TextSent(x) ==
    \E i \in DOMAIN calls : \E j \in DOMAIN calls[i].texts : calls[i].texts[j] = x

NonEmptyKeys == {k \in DOMAIN source : source[k] # Empty}

\* every call so far succeeded and returned the translation T of each text
AllCallsOk ==
    \A i \in DOMAIN calls :
        /\ ~calls[i].err
        /\ Len(calls[i].results) = Len(calls[i].texts)
        /\ \A j \in DOMAIN calls[i].texts : calls[i].results[j] = T(calls[i].texts[j])

\* C1: a key whose source value is empty keeps its target entry (absent stays
\* absent, a value stays the same) and no client call is issued for it
C1_EmptySourceUntouched ==
    Returned =>
        \A k \in DOMAIN source :
            source[k] = Empty =>
                Entry(target, k) = Entry(target0, k) /\ ~Called(k)

\* C2: a key of the override map with a non-empty source value that exists in
\* the target ends with the override value, in every mode and strategy, and
\* no client call carries the key or its source text
C2_OverrideWins ==
    Returned =>
        \A k \in NonEmptyKeys :
            (~indep.nil /\ k \in DOMAIN indep.items /\ k \in DOMAIN target0) =>
                /\ target[k] = indep.items[k]
                /\ ~Called(k)
                /\ ~TextSent(source[k])

C2_Witness ==
    /\ pc = "done"
    /\ mode = "missing"
    /\ batchSize > 0
    /\ ~indep.nil
    /\ "a" \in NonEmptyKeys
    /\ Entry(target0, "a") = <<Old>>
    /\ Entry(target, "a") = <<Ov>>
    /\ Entry(disk.items, "a") = <<Ov>>

\* C3: a key with a non-empty source value and no entry in the target at the
\* start is translated in both modes and strategies, also when an override
\* map is supplied
C3_AbsentKeyTranslated ==
    (Returned /\ mode \in {"full", "missing"}) =>
        \A k \in NonEmptyKeys : k \notin DOMAIN target0 => Called(k)

\* C4: in missing mode without override, a key with a non-empty source value
\* is translated exactly when it was absent from the target at the start
C4_MissingModeIff ==
    (Returned /\ mode = "missing" /\ indep.nil) =>
        /\ missingKeys = (DOMAIN source) \ (DOMAIN target0)
        /\ \A k \in NonEmptyKeys : Called(k) <=> k \notin DOMAIN target0

C4_Witness ==
    /\ pc = "done"
    /\ mode = "missing"
    /\ indep.nil
    /\ NonEmptyKeys = {"a", "b"}
    /\ Entry(target0, "a") = <<Bang>>
    /\ Entry(target0, "b") = <<>>
    /\ ~Called("a")
    /\ Called("b")
    /\ Entry(target, "a") = <<Bang>>

C6_FullTranslatesAll ==
    (Returned /\ mode = "full" /\ indep.nil) =>
        \A k \in NonEmptyKeys : Called(k)

\* C7: a second run in missing mode on the persisted target, with the source
\* unchanged, issues no client call and leaves the target map as persisted
C7_MissingIdempotent ==
    run >= 2 => (calls = <<>> /\ target = target0 /\ (pc = "done" => disk.items = target0))

C7_Witness ==
    /\ run = 2
    /\ pc = "done"
    /\ mode = "missing"
    /\ prev.calls # <<>>
    /\ prev.failedKeys # <<>>
    /\ \E k \in NonEmptyKeys : Entry(target, k) = <<T(source[k])>>

\* C8: from an empty target, in missing mode without override, with a
\* translator that always returns T(x), every source key with a non-empty
\* plain-string value ends with T of its source value and nothing failed
C8_ScenarioA ==
    (pc = "done" /\ DOMAIN target0 = {} /\ mode = "missing" /\ indep.nil /\ AllCallsOk) =>
        /\ failedKeys = <<>>
        /\ \A k \in NonEmptyKeys :
               ~IsArray(source[k]) =>
                   /\ Entry(target, k) = <<T(source[k])>>
                   /\ Entry(disk.items, k) = <<T(source[k])>>

C8_Witness ==
    /\ pc = "done"
    /\ DOMAIN target0 = {}
    /\ mode = "missing"
    /\ indep.nil
    /\ batchSize = 2
    /\ AllCallsOk
    /\ DOMAIN source = {"a", "b"}
    /\ source["a"] = Hello
    /\ source["b"] = NotArr
    /\ target = [k \in {"a", "b"} |-> T(source[k])]
    /\ Len(calls) = 1

\* a key succeeded in a call: it was sent to the client and is not in the
\* failure list
SucceededIn(cs, fk, k) ==
    CalledIn(cs, k) /\ \A i \in DOMAIN fk : fk[i] # k

\* C9: single_process and batch_process, given the same source, target and
\* mode, leave the same target value for every key that succeeds under both
C9_SingleBatchEqual ==
    (run = 2 /\ pc = "done") =>
        \A k \in DOMAIN source :
            (SucceededIn(prev.calls, prev.failedKeys, k) /\ SucceededIn(calls, failedKeys, k)) =>
                Entry(target, k) = Entry(prev.target, k)

CallsOf(k) == LET OfKey(c) == c.keys = <<k>> IN SelectSeq(calls, OfKey)

\* C10: in single_process, when every element of an array-valued key is
\* translated successfully, Translate was called once per element in order
\* and the target value decodes to the array of the elements' translations
C10_ArrayFidelity ==
    batchSize = 0 =>
        \A k \in NonEmptyKeys :
            (/\ IsArray(source[k])
             /\ Called(k)
             /\ \A i \in DOMAIN CallsOf(k) : ~CallsOf(k)[i].err) =>
                LET arr == Unmarshal(source[k]).arr
                    dec == Unmarshal(target[k])
                IN /\ Len(CallsOf(k)) = Len(arr)
                   /\ \A i \in DOMAIN arr :
                          /\ CallsOf(k)[i].op = "Translate"
                          /\ CallsOf(k)[i].texts = <<arr[i]>>
                   /\ dec.ok
                   /\ Len(dec.arr) = Len(arr)
                   /\ \A i \in DOMAIN arr : dec.arr[i] = T(arr[i])

C10_Witness ==
    /\ pc = "done"
    /\ batchSize = 0
    /\ "a" \in DOMAIN source
    /\ source["a"] = ArrAQ
    /\ Len(CallsOf("a")) = 2
    /\ \A i \in DOMAIN CallsOf("a") : ~CallsOf("a")[i].err
    /\ Entry(target, "a") = <<Marshal(<<T(<<"a">>), T(<<"\"">>)>>)>>

\* ------------------------------------------------- failures and persistence
\* the client calls a step adds to the log
NewCalls == SubSeq(calls', Len(calls) + 1, Len(calls'))

\* a Translate call the scheduler counts as failed: an error or an empty result
FailedCall(c) == c.err \/ \E j \in DOMAIN c.results : IsEmptyResult(c.results[j])

Occurrences(s, k) == Cardinality({i \in DOMAIN s : s[i] = k})

FailedBatchKeys(cs) ==
    UNION {{cs[i].keys[j] : j \in DOMAIN cs[i].keys} :
              i \in {x \in DOMAIN cs : cs[x].op = "BatchTranslate" /\ cs[x].err}}

\* C12: when the BatchTranslate call of a flush returns an error, every key
\* of the batch is recorded as failed, no target value of those keys changes,
\* the pending batch and its key list are empty afterwards, and no later
\* batch contains a key of a failed batch
C12_WholeBatchFailure ==
    [][\A i \in DOMAIN NewCalls :
         NewCalls[i].op = "BatchTranslate" =>
             /\ \A j \in DOMAIN NewCalls[i].keys :
                    NewCalls[i].keys[j] \notin FailedBatchKeys(calls)
             /\ NewCalls[i].err =>
                    /\ failedKeys' = failedKeys \o NewCalls[i].keys
                    /\ \A j \in DOMAIN NewCalls[i].keys :
                           Entry(target', NewCalls[i].keys[j]) =
                               Entry(target, NewCalls[i].keys[j])
                    /\ batch' = <<>>
                    /\ keys' = <<>>]_vars

\* empty or made of spaces only
IsBlank(x) == \A i \in DOMAIN x : x[i] = " "

\* the keys of a call whose returned element satisfies Bad, in batch order
KeysWhere(c, Bad(_)) ==
    LET sel == SelectSeq([j \in 1..Len(c.keys) |-> j], LAMBDA j : Bad(c.results[j]))
    IN [i \in 1..Len(sel) |-> c.keys[sel[i]]]

\* what a successful flush does with its results when Bad marks a failure
FlushOutcome(Bad(_)) ==
    \A i \in DOMAIN NewCalls :
        (NewCalls[i].op = "BatchTranslate" /\ ~NewCalls[i].err) =>
            LET c == NewCalls[i] IN
            /\ Len(c.results) = Len(c.keys)
            /\ failedKeys' = failedKeys \o KeysWhere(c, Bad)
            /\ \A j \in DOMAIN c.keys :
                   IF Bad(c.results[j])
                   THEN Entry(target', c.keys[j]) = Entry(target, c.keys[j])
                   ELSE Entry(target', c.keys[j]) = <<c.results[j]>>

\* C13: after a successful flush each key whose returned element is empty or
\* whitespace-only is recorded as failed and not written, and every other
\* key of the batch gets the element at its position
C13_EmptyElements == [][FlushOutcome(IsBlank)]_vars

\* the same holds with the test the code makes: the element is "" or one space
FlushAsCoded == [][FlushOutcome(IsEmptyResult)]_vars

\* C14: in batch_process with batch size B >= 1 the pending batch never holds
\* more than B items and every BatchTranslate call carries between 1 and B
\* texts
C14_BatchBound ==
    batchSize >= 1 =>
        /\ Len(batch) <= batchSize
        /\ Len(keys) = Len(batch)
        /\ \A i \in DOMAIN calls :
               calls[i].op = "BatchTranslate" =>
                   Len(calls[i].texts) \in 1..batchSize

\* the call has left the key loop and the report
Exited == pc \notin {"start", "loop", "report"}

\* C15: in both strategies the target document is written once, after all
\* source keys have been visited, also when keys or batches failed; the call
\* returns only through the write, never because a translation failed
C15_BestEffortPersistence ==
    /\ disk.writes <= 1
    /\ disk.writes = 1 <=> pc = "done"
    /\ pc = "done" => disk.items = JSON(target)
    /\ Exited => todo = {} /\ pc \in {"done", "ioerr"}

C15_Witness ==
    /\ pc = "done"
    /\ disk.writes = 1
    /\ Len(failedKeys) > 0
    /\ \E i \in DOMAIN calls : calls[i].err
    /\ \E i \in DOMAIN calls : ~calls[i].err
    /\ disk.items = JSON(target)
    /\ disk.items # JSON(target0)

\* the keys recorded in a failure list
FailedSet(fk) == {fk[i] : i \in DOMAIN fk}

\* C16: when the target document is persisted, every key of the failure list
\* holds the target entry it had before the call started (an absent key is
\* still absent): no key is both recorded as failed and overwritten
C16_DoNotOverwrite ==
    pc = "done" =>
        \A k \in FailedSet(failedKeys) :
            /\ Entry(target, k) = Entry(target0, k)
            /\ Entry(disk.items, k) = Entry(target0, k)

\* the value a successful translation of key k gives it, as a set: a call of
\* a plain key that returned a result, all the element calls of an array key,
\* or an element of a successful batch that the scheduler accepts
Translations(k) ==
    LET cs == CallsOf(k) IN
    {cs[i].results[1] :
        i \in {x \in DOMAIN cs : /\ cs[x].op = "Translate"
                                 /\ batchSize = 0
                                 /\ ~IsArray(source[k])
                                 /\ ~FailedCall(cs[x])}}
    \cup
    {Marshal([i \in DOMAIN cs |-> cs[i].results[1]]) :
        x \in {y \in {1} : /\ batchSize = 0
                           /\ IsArray(source[k])
                           /\ Len(cs) = Len(Unmarshal(source[k]).arr)
                           /\ \A i \in DOMAIN cs : ~FailedCall(cs[i])}}
    \cup
    UNION {{calls[i].results[j] :
               j \in {y \in DOMAIN calls[i].keys :
                         /\ calls[i].keys[y] = k
                         /\ ~IsEmptyResult(calls[i].results[y])}} :
           i \in {x \in DOMAIN calls : calls[x].op = "BatchTranslate" /\ ~calls[x].err}}

\* C17: a failed client call never aborts the document: the call returns
\* only after every source key has been visited, and every key whose
\* translation succeeded, before or after a failure, has its translated
\* value in the persisted target
C17_FailureNeverAborts ==
    /\ (Exited /\ \E i \in DOMAIN calls : calls[i].err) => todo = {}
    /\ pc = "done" =>
           \A k \in DOMAIN source :
               \A v \in Translations(k) : Entry(disk.items, k) = <<v>>

C17_Witness ==
    /\ pc = "done"
    /\ batchSize = 2
    /\ Len(calls) = 2
    /\ calls[1].err
    /\ ~calls[2].err
    /\ calls[2].keys = <<"a", "b">>
    /\ calls[2].results = <<Empty, T(Hello)>>
    /\ Entry(disk.items, "b") = <<T(Hello)>>
    /\ Translations("b") = {T(Hello)}
    /\ Translations("a") = {}

\* the lines of a text of one-character lines separated by line feeds
RECURSIVE Lines(_)
Lines(text) ==
    IF Len(text) = 0 THEN <<>>
    ELSE IF text[1] = "\n" THEN <<"">> \o Lines(Tail(text))
    ELSE IF Len(text) = 1 THEN <<text[1]>>
    ELSE IF text[2] = "\n" THEN <<text[1]>> \o Lines(SubSeq(text, 3, Len(text)))
    ELSE <<"?">>

\* C18: a call writes the sidecar file if and only if at least one key failed
\* in that call, and the file lists the failed keys one per line, each failed
\* key exactly once
C18_SidecarReport ==
    Returned =>
        /\ sidecar.written <=> Len(failedKeys) > 0
        /\ sidecar.written =>
               /\ \A i \in DOMAIN Lines(sidecar.content) :
                      Lines(sidecar.content)[i] \in FailedSet(failedKeys)
               /\ \A k \in FailedSet(failedKeys) :
                      Occurrences(Lines(sidecar.content), k) = 1

\* the keys a call selected for translation: those it sent to the client
SelectedKeys == {k \in DOMAIN source : \E i \in DOMAIN calls :
                    \E j \in DOMAIN calls[i].keys : calls[i].keys[j] = k}

\* C19: the count summary of a call has total = the number of source keys,
\* translated = the number of keys whose target value was replaced by a
\* translation, failed = the number of distinct failed keys, translated >= 0
\* and translated + failed = the number of keys selected for translation
C19_CountSummary ==
    pc = "done" =>
        /\ Summary.total = Cardinality(DOMAIN source)
        /\ Summary.translated = Cardinality({k \in DOMAIN source : Translations(k) # {}})
        /\ Summary.failed = Cardinality(FailedSet(failedKeys))
        /\ Summary.translated >= 0
        /\ Summary.translated + Summary.failed = Cardinality(SelectedKeys)

\* ------------------------------------------------------ client properties
\* a response that yields non-empty text
Yields(resp) == resp.kind = "ok" /\ TrimSpace(resp.content) # Empty

\* a Translate request of caller c
IsTranslate(c) == req[c].op = "Translate"

\* C20: Translate makes at most 3 external calls per request; it returns the
\* text of the first attempt that yields non-empty text and makes no call
\* after it; when all 3 attempts fail it returns an error that wraps the
\* cause observed on the last attempt
C20_ThreeAttempts ==
    \A c \in Callers : IsTranslate(c) =>
        LET r == req[c] IN
        /\ Len(r.tries) <= 3
        /\ r.pc \in {"advance", "call"} => Len(r.tries) < 3
        /\ \A i \in DOMAIN r.tries : i < Len(r.tries) => ~Yields(r.tries[i])
        /\ (Len(r.tries) > 0 /\ Yields(r.tries[Len(r.tries)])) =>
               /\ r.pc = "returned"
               /\ ~r.ret.err
               /\ r.ret.val = TrimSpace(r.tries[Len(r.tries)].content)
        /\ (r.pc = "returned" /\ ~r.ret.err) =>
               Len(r.tries) > 0 /\ Yields(r.tries[Len(r.tries)])
        /\ (r.pc = "returned" /\ r.ret.err) =>
               /\ Len(r.tries) = 3
               /\ \A i \in 1..3 : ~Yields(r.tries[i])
               /\ LET last == r.tries[3] IN
                  IF last.kind = "ok"
                  THEN r.ret.cause = Plain("received empty translation")
                  ELSE IF last.kind = "nochoices"
                  THEN r.ret.cause = Plain("no choices in response")
                  ELSE r.ret.cause.wraps = last

C20_Witness ==
    /\ req[1].pc = "returned"
    /\ req[1].op = "Translate"
    /\ req[1].id = 2
    /\ ~req[1].ret.err
    /\ Len(req[1].tries) = 3
    /\ req[1].tries[1].status = 429
    /\ req[1].tries[2].content = Space2
    /\ req[1].tries[3].content = <<" ">> \o T(Hello) \o <<"\n">>
    /\ req[1].ret.val = T(Hello)

\* a request that used up its attempts
ExhaustedReached ==
    /\ req[1].pc = "returned"
    /\ req[1].op = "Translate"
    /\ req[1].ret.err
    /\ Len(req[1].tries) = 3
    /\ req[1].tries[1].kind = "ok"
    /\ req[1].tries[3].status = 503
    /\ req[1].ret.cause.wraps = req[1].tries[3]

\* a response that counts as an empty result: no choices, or a content that
\* is empty or made of white space only
EmptyResponse(resp) ==
    \/ resp.kind = "nochoices"
    \/ resp.kind = "ok" /\ \A i \in DOMAIN resp.content : IsSpaceCh(resp.content[i])

\* C21: Translate never returns success with an empty or whitespace-only
\* string: an attempt whose response is empty after trimming, or has no
\* choices, is a failed attempt that is retried, and a successful return
\* value is non-empty without leading or trailing white space
C21_NeverEmptySuccess ==
    \A c \in Callers : IsTranslate(c) =>
        LET r == req[c] IN
        /\ (r.pc = "returned" /\ ~r.ret.err) =>
               /\ Len(r.ret.val) > 0
               /\ ~IsSpaceCh(r.ret.val[1])
               /\ ~IsSpaceCh(r.ret.val[Len(r.ret.val)])
               /\ ~EmptyResponse(r.tries[Len(r.tries)])
        /\ \A i \in DOMAIN r.tries :
               EmptyResponse(r.tries[i]) =>
                   /\ r.attempt >= i
                   /\ \/ i < Len(r.tries)
                      \/ i < 3 /\ r.pc \in {"lock", "advance", "call"}
                      \/ i = 3 /\ r.pc = "returned" /\ r.ret.err

C21_Witness ==
    /\ req[1].op = "Translate"
    /\ req[1].pc = "returned"
    /\ ~req[1].ret.err
    /\ Len(req[1].tries) = 3
    /\ req[1].tries[1].kind = "nochoices"
    /\ req[1].tries[2].content = Space
    /\ req[1].tries[3].content = <<" ">> \o T(Bang) \o <<"\n">>
    /\ req[1].ret.val = T(Bang)

\* the backoff of a rate-limit response at attempt index i
RateLimitSleep(op, i) ==
    IF op = "Translate" THEN attemptOutcome(Resp("api", 429, Empty), i).sleep
    ELSE batchOutcome(Resp("api", 429, Empty), i, 1).sleep

\* what the attempts of a request waited, ServerError telling which statuses
\* count as an upstream server error
Classified(r, ServerError(_)) ==
    /\ Len(r.slept) >= Cardinality({i \in DOMAIN r.tries : r.tries[i].kind # "ok"})
    /\ \A i \in DOMAIN r.tries :
           LET resp == r.tries[i] IN
           resp.kind \notin {"ok", "nochoices"} =>
               /\ i \in DOMAIN r.slept
               /\ r.attempt >= i
               /\ IF resp.kind = "api" /\ resp.status = 429
                  THEN /\ r.slept[i] = RateLimitSleep(r.op, i - 1)
                       /\ r.slept[i] > 0
                       /\ i > 1 => r.slept[i] > RateLimitSleep(r.op, i - 2)
                  ELSE IF resp.kind = "api" /\ ServerError(resp.status)
                  THEN r.slept[i] > 0 /\ r.slept[i] < RateLimitSleep(r.op, i - 1)
                  ELSE IF resp.kind \in {"deadline", "timeout"}
                  THEN r.slept[i] > 0
                  ELSE r.slept[i] = 0

Is5xx(status) == status \in 500..599

IsListed5xx(status) == status \in {500, 502, 503, 504}

\* C22: in both client operations a failed attempt i is retried; a rate-limit
\* response waits a backoff that grows with i, any 5xx error waits a shorter
\* backoff than a rate-limit at the same i, a deadline or timeout waits a
\* backoff, and any other transport failure is retried without a wait
C22_FailureClassification ==
    \A c \in Callers : Classified(req[c], Is5xx)

\* with 500, 502, 503 and 504 as the server errors the classification holds
ClassifiedAsCoded == \A c \in Callers : Classified(req[c], IsListed5xx)

\* the goroutines inside the locked section
InSection == {c \in Callers : req[c].pc = "advance"}

\* C23: with n >= 1 sub-clients the index is advanced by one (mod n) before
\* every external call, retries included, in Translate and BatchTranslate:
\* the k-th external call (k from 0) uses sub-client k mod n and the index
\* stays in 0..n-1
C23_Rotation ==
    /\ h.index \in 0..(h.clients - 1)
    /\ \A k \in DOMAIN ext : ext[k] = (k - 1) % h.clients
    /\ InSection = {} => h.index = Len(ext) % h.clients
    /\ \A c \in Callers :
           /\ req[c].pc = "call" => Len(ext) >= Len(req[c].tries) + 1
           /\ req[c].pc \in {"advance", "call"} => req[c].client \in 0..(h.clients - 1)
           /\ req[c].pc = "returned" => Len(ext) >= Len(req[c].tries)

C23_Witness ==
    /\ h.clients = 2
    /\ req[1].id = 2
    /\ req[1].op = "BatchTranslate"
    /\ req[1].pc = "call"
    /\ req[1].attempt = 2
    /\ req[1].client = 0
    /\ ext = <<0, 1, 0, 1, 0>>
    /\ h.index = 1

\* C24: under any interleaving of concurrent Translate and BatchTranslate
\* calls on one handler the read-select-advance of the index is atomic: at
\* most one goroutine is inside the locked section, successive external calls
\* never see the same index without an advance in between, the index stays in
\* 0..n-1 and m external calls advance it by m mod n
C24_AtomicRotation ==
    /\ Cardinality(InSection) <= 1
    /\ h.locked <=> InSection # {}
    /\ h.index \in 0..(h.clients - 1)
    /\ \A k \in DOMAIN ext : ext[k] = (k - 1) % h.clients
    /\ h.index = (Len(ext) - Cardinality(InSection)) % h.clients

\* two goroutines with an external call in flight at the same time, one in
\* Translate and one in BatchTranslate, that were given different clients
C24_Witness ==
    /\ h.clients = 2
    /\ req[1].pc = "call"
    /\ req[2].pc = "call"
    /\ req[1].op = "Translate"
    /\ req[2].op = "BatchTranslate"
    /\ req[1].attempt = 1
    /\ req[1].client = 1
    /\ req[2].client = 0
    /\ ext = <<0, 1, 0>>
    /\ h.index = 1

\* a BatchTranslate request of caller c
IsBatch(c) == req[c].op = "BatchTranslate"

\* the arrays of strings that one of the three readings finds in a content
Decodable(content0) ==
    LET content == TrimSpace(content0)
        startIdx == Index(content, "{")
        endIdx == LastIndex(content, "}")
        inner == IF startIdx >= 1 /\ endIdx > startIdx
                 THEN SubSeq(content, startIdx, endIdx) ELSE Empty
    IN {r.arr : r \in {x \in {UnmarshalObject(content), Unmarshal(content),
                              UnmarshalObject(inner)} : x.ok}}

\* C25: BatchTranslate makes at most 3 attempts; a successful return is a
\* list of exactly the length of the input, read from the last response, and
\* a response whose arrays all have another length is never accepted
C25_SameLength ==
    \A c \in Callers : IsBatch(c) =>
        LET r == req[c]
            n == Len(r.texts)
        IN /\ Len(r.tries) <= 3
           /\ r.pc \in {"advance", "call"} => Len(r.tries) < 3
           /\ (r.pc = "returned" /\ ~r.ret.err) =>
                  /\ Len(r.ret.val) = n
                  /\ r.tries[Len(r.tries)].kind = "ok"
                  /\ r.ret.val \in Decodable(r.tries[Len(r.tries)].content)
           /\ (r.pc = "returned" /\ r.ret.err) => Len(r.tries) = 3
           /\ \A i \in DOMAIN r.tries :
                  (\A a \in Decodable(r.tries[i].content) : Len(a) # n) =>
                      /\ r.attempt >= i
                      /\ i = Len(r.tries) => (r.pc # "returned" \/ r.ret.err)

C25_Witness ==
    /\ req[1].op = "BatchTranslate"
    /\ req[1].texts = <<Hello, Bang>>
    /\ req[1].pc = "returned"
    /\ ~req[1].ret.err
    /\ Len(req[1].tries) = 3
    /\ req[1].tries[1].content = Marshal(<<T(Bang)>>)
    /\ req[1].tries[2].content = ObjForm(<<T(Hello), T(Bang), Empty>>)
    /\ req[1].tries[3].content = Marshal(<<T(Hello), T(Bang)>>)
    /\ req[1].ret.val = <<T(Hello), T(Bang)>>

\* the fallback order applied to a content for n texts: the step that accepts
\* (0 when none does) and the list it yields
Fallback(content0, n) ==
    LET content == TrimSpace(content0)
        whole == UnmarshalObject(content)
        bare == Unmarshal(content)
        startIdx == Index(content, "{")
        endIdx == LastIndex(content, "}")
        found == startIdx >= 1 /\ endIdx > startIdx
        inner == UnmarshalObject(IF found THEN SubSeq(content, startIdx, endIdx) ELSE Empty)
    IN IF whole.ok /\ Len(whole.arr) = n THEN [step |-> 1, vals |-> whole.arr]
       ELSE IF HasPrefix(content, "[") /\ HasSuffix(content, "]")
       THEN IF bare.ok /\ Len(bare.arr) = n THEN [step |-> 2, vals |-> bare.arr]
            ELSE [step |-> 0, vals |-> <<>>]
       ELSE IF found /\ inner.ok /\ Len(inner.arr) = n THEN [step |-> 3, vals |-> inner.arr]
       ELSE [step |-> 0, vals |-> <<>>]

\* C26: BatchTranslate reads each response in a fixed order, a step accepting
\* only a list of the input's length: the whole trimmed content as the object
\* form; else, for a content in square brackets, a bare array; else the text
\* from the first { to the last } as the object form. When no step accepts,
\* the attempt is used up and the request is sent again
C26_ParseOrder ==
    \A c \in Callers : IsBatch(c) =>
        LET r == req[c] IN
        \A i \in DOMAIN r.tries :
            r.tries[i].kind = "ok" =>
                LET f == Fallback(r.tries[i].content, Len(r.texts)) IN
                IF f.step # 0
                THEN /\ i = Len(r.tries)
                     /\ r.pc = "returned"
                     /\ ~r.ret.err
                     /\ r.ret.val = f.vals
                ELSE /\ r.attempt >= i
                     /\ \/ i < Len(r.tries)
                        \/ i < 3 /\ r.pc \in {"lock", "advance", "call"}
                        \/ i = 3 /\ r.pc = "returned" /\ r.ret.err

C26_Witness ==
    /\ req[1].op = "BatchTranslate"
    /\ req[1].texts = <<Hello>>
    /\ req[1].pc = "returned"
    /\ ~req[1].ret.err
    /\ Len(req[1].tries) = 3
    /\ req[1].tries[1].content = <<"[">> \o ObjForm(<<T(Hello)>>) \o <<"]">>
    /\ req[1].tries[2].content = <<"n", "o">>
    /\ req[1].tries[3].content = <<"O", "k", ":", " ">> \o ObjForm(<<T(Hello)>>) \o <<".">>
    /\ Fallback(req[1].tries[3].content, 1).step = 3
    /\ req[1].ret.val = <<T(Hello)>>

\* C27: a response that BatchTranslate accepts is returned on that attempt as
\* it was parsed, also when elements are empty or white space only: no retry,
\* no element removed or moved
C27_EmptyElementsKept ==
    \A c \in Callers : IsBatch(c) =>
        LET r == req[c] IN
        \A i \in DOMAIN r.tries :
            LET f == IF r.tries[i].kind = "ok"
                     THEN Fallback(r.tries[i].content, Len(r.texts))
                     ELSE [step |-> 0, vals |-> <<>>]
            IN (f.step # 0 /\ \E j \in DOMAIN f.vals : IsBlank(f.vals[j])) =>
                   /\ i = Len(r.tries)
                   /\ r.attempt = i - 1
                   /\ r.pc = "returned"
                   /\ ~r.ret.err
                   /\ Len(r.ret.val) = Len(r.texts)
                   /\ \A j \in DOMAIN f.vals : r.ret.val[j] = f.vals[j]

C27_Witness ==
    /\ req[1].op = "BatchTranslate"
    /\ req[1].texts = <<Hello, Bang>>
    /\ req[1].pc = "returned"
    /\ ~req[1].ret.err
    /\ req[1].attempt = 0
    /\ Len(req[1].tries) = 1
    /\ req[1].tries[1].content = ObjForm(<<Empty, T(Bang)>>)
    /\ req[1].ret.val = <<Empty, T(Bang)>>

\* ----------------------------------------------------- scanner properties
IsSubdir(f, l) == f.root = "dir" /\ f.top[l] = "dir"

\* the name ends in .json
IsJsonName(n) ==
    /\ Len(n) >= 5
    /\ <<n[Len(n) - 4], n[Len(n) - 3], n[Len(n) - 2], n[Len(n) - 1], n[Len(n)]>>
           = <<".", "j", "s", "o", "n">>

NoDuplicates(s) == \A i, j \in DOMAIN s : s[i] = s[j] => i = j

\* C28: ScanDirectory fails, returning no structure, when the root does not
\* exist or the source language is not a subdirectory of the root. Otherwise
\* it succeeds, Languages lists exactly the immediate subdirectories of the
\* root and FileTypes lists exactly the names of the files directly under the
\* source-language directory that end in .json.
C28_ScanResult ==
    [][(cmd = "start" /\ cmd' # "start") =>
          IF fs.root = "none" \/ ~IsSubdir(fs, sourceLang)
          THEN /\ cmd' = "failed"
               /\ ds'.err # "nil"
               /\ DOMAIN ds' = {"err"}
          ELSE /\ cmd' = "scanned"
               /\ ds'.err = "nil"
               /\ NoDuplicates(ds'.Languages)
               /\ Range(ds'.Languages) = {l \in LangNames : IsSubdir(fs, l)}
               /\ NoDuplicates(ds'.FileTypes)
               /\ Range(ds'.FileTypes) =
                      {n \in FileNames : fs.sub[sourceLang][n] = "file" /\ IsJsonName(n)}
      ]_vars

\* a scan of a root holding two language directories and a file, whose
\* source directory holds two .json files and another file
C28_Witness ==
    /\ cmd = "scanned"
    /\ changes = 0
    /\ sourceLang = En
    /\ fs.top[De] = "file"
    /\ fs.sub[En][CTxt] = "file"
    /\ ds.err = "nil"
    /\ ds.Languages = <<En, Fr>>
    /\ ds.FileTypes = <<AJson, BJson>>

\* the file of a type is there under a language directory
FileExists(f, l, t) == IsSubdir(f, l) /\ f.sub[l][t] # "none"

Combination(pair) == <<pair.TargetLang, pair.FileType>>

\* C29: GetPairs returns one pair for every combination of a language of the
\* structure other than the source language with a file type of the structure
\* whose source file exists, and nothing else: no pair has the source
\* language as its target, and a combination is there whether or not its
\* target file exists.
C29_CrossProduct ==
    cmd = "paired" =>
        LET targets == Range(ds.Languages) \ {sourceLang}
            types == {t \in Range(ds.FileTypes) : FileExists(fs, sourceLang, t)}
        IN /\ {Combination(pairs[i]) : i \in DOMAIN pairs} = targets \X types
           /\ \A i, j \in DOMAIN pairs :
                  Combination(pairs[i]) = Combination(pairs[j]) => i = j
           /\ \A i \in DOMAIN pairs :
                  /\ pairs[i].TargetLang # sourceLang
                  /\ pairs[i].SourceLang = sourceLang

\* two target languages and one file type give two pairs, one of them for a
\* target file that does not exist; the other file type of the scan is left
\* out because its source file is gone
C29_Witness ==
    /\ cmd = "paired"
    /\ Len(ds.Languages) = 3
    /\ Len(pairs) = 2
    /\ Len(ds.FileTypes) = 2
    /\ \E t \in Range(ds.FileTypes) : ~FileExists(fs, sourceLang, t)
    /\ \E i \in DOMAIN pairs : ~FileExists(fs, pairs[i].TargetLang, pairs[i].FileType)

\* C30: FindMissingPairs returns exactly the pairs of GetPairs whose target
\* file does not exist: every pair it returns is a pair of GetPairs, and a
\* pair of GetPairs is returned if and only if its target file is absent.
C30_MissingPairs ==
    (cmd = "paired" /\ missingPairs # NoPairs) =>
        /\ Range(missingPairs) \subseteq Range(pairs)
        /\ \A i \in DOMAIN pairs :
               pairs[i] \in Range(missingPairs)
                   <=> ~FileExists(fs, pairs[i].TargetLang, pairs[i].FileType)
        /\ NoDuplicates(missingPairs)

\* some pairs of GetPairs have their target file and some do not, one of
\* these in a language directory that was removed after the scan
C30_Witness ==
    /\ cmd = "paired"
    /\ missingPairs # NoPairs
    /\ Len(missingPairs) >= 2
    /\ Len(missingPairs) < Len(pairs)
    /\ \E l \in Range(ds.Languages) : fs.sub[l] = NoEntries(FileNames) /\ changes > 0

\* ---------------------------------------------------- scheduler, continued
\* C33: the missing set is the set of the source keys that have no entry in
\* the target as it was given (none when the source is empty, every source
\* key when the target is empty). It is computed when the call begins,
\* before any key is visited, any call is issued or the target is changed,
\* and it keeps that value until the call returns, although the target then
\* holds every source key.
C33_MissingSetOnce ==
    /\ pc = "start" => (target = target0 /\ calls = <<>> /\ failedKeys = <<>>)
    /\ pc # "start" =>
           /\ missingKeys = {k \in DOMAIN source : k \notin DOMAIN target0}
           /\ (DOMAIN source = {} => missingKeys = {})
           /\ (DOMAIN target0 = {} => missingKeys = DOMAIN source)

\* a call returned with the missing set {b} although b is now in the target
C33_Witness ==
    /\ pc = "done"
    /\ DOMAIN source = {"a", "b"}
    /\ DOMAIN target0 = {"a"}
    /\ missingKeys = {"b"}
    /\ "b" \in DOMAIN target
    /\ Called("b")
    /\ ~Called("a")

\* C34: when an override map is supplied that does not hold a key, the key
\* being in the target and its source value non-empty, the key is decided as
\* without an override map: in full mode it is translated when its target
\* value is empty or begins with !, in missing mode exactly when it is in the
\* missing set.
C34_OverrideWithoutKey ==
    (Returned /\ ~indep.nil) =>
        \A k \in NonEmptyKeys :
            (k \notin DOMAIN indep.items /\ k \in DOMAIN target0) =>
                /\ mode = "full" =>
                       ((target0[k] = Empty \/ HasPrefix(target0[k], "!")) => Called(k))
                /\ mode = "missing" => (Called(k) <=> k \in missingKeys)

\* what the code does for such a key: nothing, in every mode
OverrideWithoutKeyAsCoded ==
    (Returned /\ ~indep.nil) =>
        \A k \in NonEmptyKeys :
            k \notin DOMAIN indep.items =>
                ~Called(k) /\ Entry(target, k) = <<IF k \in DOMAIN target0 THEN target0[k] ELSE Empty>>

TextsOf(cs) == UNION {{cs[i].texts[j] : j \in DOMAIN cs[i].texts} : i \in DOMAIN cs}

\* the calls are those of a translator whose outcome for a text depends on
\* the text only: a text has one translation (or empty result) wherever it
\* is answered, and there is a set of texts that fail, a call returning an
\* error exactly when it carries one of them
SameTranslator(cs) ==
    /\ \A i, m \in DOMAIN cs :
           (~cs[i].err /\ ~cs[m].err) =>
               \A j \in DOMAIN cs[i].texts, n \in DOMAIN cs[m].texts :
                   cs[i].texts[j] = cs[m].texts[n] => cs[i].results[j] = cs[m].results[n]
    /\ \E failing \in SUBSET TextsOf(cs) :
           \A i \in DOMAIN cs :
               cs[i].err <=> \E j \in DOMAIN cs[i].texts : cs[i].texts[j] \in failing

\* C35: two calls with the same source, target, override, mode and batch
\* size, answered by a translator whose outcome depends on the text only,
\* persist the same target map and record the same set of failed keys, in
\* whatever order each call visits the source keys.
C35_OrderIndependence ==
    (run = 2 /\ pc = "done" /\ SameTranslator(prev.calls \o calls)) =>
        /\ target = prev.target
        /\ disk.items = prev.target
        /\ FailedSet(failedKeys) = FailedSet(prev.failedKeys)

\* single_process alone does not depend on the order
OrderIndependenceSingle == batchSize = 0 => C35_OrderIndependence

\* C36: no step of either strategy changes the source map or removes a key
\* from the target, and a key of the target that is not a key of the source
\* keeps the value it had before the call, in memory and in the persisted
\* target.
C36_Frame ==
    [][/\ source' = source
       /\ DOMAIN target \subseteq DOMAIN target'
       /\ DOMAIN target0 \subseteq DOMAIN target'
       /\ \A k \in (DOMAIN target0) \ (DOMAIN source) :
              /\ Entry(target', k) = <<target0[k]>>
              /\ Entry(disk'.items, k) = <<target0[k]>>
      ]_vars

\* a call that translated a and persisted the target with the key b, which
\* the source does not have, as it was
C36_Witness ==
    /\ pc = "done"
    /\ DOMAIN source = {"a"}
    /\ source["a"] = Hello
    /\ target0 = [k \in {"b"} |-> Old]
    /\ disk.items = [k \in {"a", "b"} |-> IF k = "a" THEN T(Hello) ELSE Old]

\* the translation of a key failed: in single_process one of its calls
\* failed, in batch_process every call that carried it returned an error or
\* an empty element for it
KeyFailed(k) ==
    /\ Called(k)
    /\ IF batchSize = 0
       THEN \E i \in DOMAIN CallsOf(k) : FailedCall(CallsOf(k)[i])
       ELSE \A i \in DOMAIN calls : \A j \in DOMAIN calls[i].keys :
                calls[i].keys[j] = k => (calls[i].err \/ IsEmptyResult(calls[i].results[j]))

\* C37: when a call has persisted the target, every key of the source is a
\* key of the persisted target, and a key that was absent at the start whose
\* source value is empty or whose translation failed is persisted with the
\* empty string. A following call in missing mode on the same source then
\* finds no key missing and issues no call for the keys that failed.
C37_FailedKeyPersistedEmpty ==
    /\ pc = "done" =>
           /\ DOMAIN source \subseteq DOMAIN disk.items
           /\ \A k \in (DOMAIN source) \ (DOMAIN target0) :
                  (source[k] = Empty \/ KeyFailed(k)) => disk.items[k] = Empty
    /\ run >= 2 =>
           /\ DOMAIN source \subseteq DOMAIN target0
           /\ pc # "start" => missingKeys = {}
           /\ \A k \in FailedSet(prev.failedKeys) : ~Called(k)

\* the first call failed on the missing key a and persisted it as "", the
\* second call has returned without translating it
C37_Witness ==
    /\ run = 2
    /\ pc = "done"
    /\ source = [k \in {"a"} |-> Hello]
    /\ prev.failedKeys = <<"a">>
    /\ Len(prev.calls) = 1
    /\ target0 = [k \in {"a"} |-> Empty]
    /\ disk.items = [k \in {"a"} |-> Empty]
    /\ calls = <<>>

\* C38: with a mode that is neither full nor missing and no override map,
\* neither strategy issues a client call or records a failure; the target
\* only gains the source keys it did not have, with the empty string, and
\* it is persisted so, without a sidecar file.
C38_UnknownMode ==
    (mode \notin {"full", "missing"} /\ indep.nil) =>
        LET filled == [k \in (DOMAIN target0) \cup (DOMAIN source) |->
                          IF k \in DOMAIN target0 THEN target0[k] ELSE Empty]
        IN /\ calls = <<>>
           /\ failedKeys = <<>>
           /\ translatedCount = 0
           /\ ~sidecar.written
           /\ pc # "start" => target = filled
           /\ pc = "done" => (disk.writes = 1 /\ disk.items = filled)

\* a call with the empty mode that left the value marked with ! alone and
\* added the missing key b with the empty string
C38_Witness ==
    /\ pc = "done"
    /\ mode = ""
    /\ indep.nil
    /\ batchSize = 0
    /\ source = [k \in {"a", "b"} |-> Hello]
    /\ target0 = [k \in {"a"} |-> Bang]
    /\ disk.items = [k \in {"a", "b"} |-> IF k = "a" THEN Bang ELSE Empty]
    /\ calls = <<>>

\* the keys chosen for translation so far
Selected == SelectedKeys \cup FailedSet(keys)

\* single_process issues at most one Translate call for a plain value and at
\* most one per element for an array value; batch_process issues at most one
\* BatchTranslate call per selected key and one more
CallBound ==
    /\ batchSize = 0 =>
           /\ \A i \in DOMAIN calls : calls[i].op = "Translate" /\ Len(calls[i].keys) = 1
           /\ \A k \in DOMAIN source :
                  Len(CallsOf(k)) <= IF IsArray(source[k]) THEN Len(Unmarshal(source[k]).arr)
                                     ELSE 1
    /\ batchSize > 0 =>
           /\ \A i \in DOMAIN calls : calls[i].op = "BatchTranslate"
           /\ Len(calls) <= Cardinality(Selected) + 1

\* the range loop takes each source key once: the keys left to visit start as
\* the keys of the source and lose one key at a time
VisitOnce ==
    /\ todo \subseteq DOMAIN source
    /\ Returned => todo = {}
    /\ \A k \in DOMAIN source : k \in todo => ~Called(k)

\* C40: single_process and batch_process, with a client whose calls return,
\* visit each key of the source once and then return; the number of client
\* calls stays within the bound of the strategy. (That one client operation
\* makes at most three external calls is C20, on the handler.)
C40_Termination == []CallBound /\ []VisitOnce /\ <>Returned

\* batch_process with batch size 1 and two selected keys has returned after
\* three BatchTranslate calls
C40_Witness ==
    /\ pc = "done"
    /\ batchSize = 1
    /\ Cardinality(Selected) = 2
    /\ Len(calls) = 3

\* ------------------------------------------ properties over several documents
SourceOk(fp) == drv.files[fp.SourceFile].exists /\ drv.files[fp.SourceFile].ok

\* C31: when sync loads a pair, a source that does not parse makes the load
\* fail with no documents; with a target file that is absent the load
\* succeeds with an empty target document that has the language code and the
\* path of the pair; a target file that exists is parsed, and the load fails
\* when it does not parse.
C31_LoadPair ==
    [][(drv.kind = "sync" /\ drv.at = "load" /\ drv' # drv) =>
          LET fp == drv.items[drv.i]
              src == drv.files[fp.SourceFile]
              tgt == drv.files[fp.TargetFile]
              r == drv'.last
              failed == /\ r.err
                        /\ r.source = NoContent
                        /\ r.target = NoContent
                        /\ drv'.at # "run"
                        /\ UNCHANGED <<source, target, pc>>
          IN /\ ~SourceOk(fp) => failed
             /\ (SourceOk(fp) /\ ~tgt.exists) =>
                    /\ ~r.err
                    /\ r.source.LocaleItemsMap = src.items
                    /\ r.target = [Code |-> fp.TargetLang, Path |-> fp.TargetFile,
                                   LocaleItemsMap |-> << >>]
                    /\ source' = src.items
                    /\ target' = << >>
                    /\ drv'.doc.Path = fp.TargetFile
             /\ (SourceOk(fp) /\ tgt.exists /\ tgt.ok) =>
                    /\ ~r.err
                    /\ r.target = [Code |-> fp.TargetLang, Path |-> fp.TargetFile,
                                   LocaleItemsMap |-> tgt.items]
                    /\ source' = src.items
                    /\ target' = tgt.items
             /\ (SourceOk(fp) /\ tgt.exists /\ ~tgt.ok) => failed]_vars

\* the second pair of sync has been loaded without a target file: the target
\* document is empty and is the French one
C31_Witness ==
    /\ drv.kind = "sync"
    /\ drv.at = "run"
    /\ drv.i = 2
    /\ pc = "start"
    /\ ~drv.files[drv.items[2].TargetFile].exists
    /\ ~drv.last.err
    /\ drv.last.target.Code = Fr
    /\ drv.last.target.Path = PathJoin(PathJoin(Root, Fr), AJson)
    /\ target = << >>
    /\ source # << >>

Handled(path) == \E j \in DOMAIN drv.out : drv.out[j].path = path

Over == drv.kind # "none" /\ drv.at \in {"end", "abort"}

\* C32: a failure to read, parse or write one document ends the work on
\* that document only: when sync or translate is over, each document given
\* to it has been loaded and processed, or left because it did not load.
\* (A translate that cannot read its one source has no work to do.)
C32_OnlyThatDocument ==
    (Over /\ SourceOk(drv.items[1])) => \A i \in DOMAIN drv.items : Handled(drv.items[i].TargetFile)

\* as coded, sync takes every pair, and translate takes every file up to
\* the first whose call returns an error
ContinuesAsCoded ==
    Over =>
        /\ drv.kind = "sync" =>
               /\ drv.at = "end"
               /\ \A i \in DOMAIN drv.items : Handled(drv.items[i].TargetFile)
        /\ (drv.kind = "translate" /\ drv.at = "abort" /\ SourceOk(drv.items[1])) =>
               /\ drv.out # <<>>
               /\ drv.out[Len(drv.out)].err
               /\ \A j \in 1..(Len(drv.out) - 1) : ~drv.out[j].err

\* the failed_keys_ file of a file type
SidecarOf(ft) == SidecarAt(drv.cwd, FailedKeysPrefix \o ft \o DotTxt)

\* the calls of the command, in order, that reported failed keys for a
\* target of a file type
FailuresOf(ft) ==
    {j \in DOMAIN drv.out : /\ drv.out[j].loaded
                            /\ HasSuffixStr(drv.out[j].path, <<"/">> \o ft)
                            /\ drv.out[j].failedKeys # <<>>}

\* C39: the name of the failed_keys_ file is made from the base name of the
\* target alone, so the targets of one file type in several languages
\* share one file: when sync is over that file holds the failed keys of the
\* last of those documents that had failed keys, a document without failed
\* keys leaves it as it was, and there is no other such file.
C39_SharedSidecar ==
    (drv.kind = "sync" /\ drv.at = "end") =>
        /\ \A ft \in {AJson, BJson} :
               LET js == FailuresOf(ft)
                   last == CHOOSE j \in js : \A m \in js : m <= j
               IN IF js = {} THEN ~SidecarOf(ft).written
                  ELSE SidecarOf(ft) =
                           [written |-> TRUE,
                            content |-> Join(drv.out[last].failedKeys, "\n")]
        /\ DOMAIN drv.cwd \subseteq {FailedKeysPrefix \o ft \o DotTxt : ft \in {AJson, BJson}}

\* the German and the French a.json both had failed keys; the file holds
\* the French ones only
C39_Witness ==
    /\ drv.kind = "sync"
    /\ drv.at = "end"
    /\ Len(drv.out) = 2
    /\ HasSuffixStr(drv.out[1].path, <<"/">> \o AJson)
    /\ HasSuffixStr(drv.out[2].path, <<"/">> \o AJson)
    /\ drv.out[1].failedKeys = <<"a">>
    /\ drv.out[2].failedKeys = <<"b">>
    /\ SidecarOf(AJson).content = <<"b">>

\* the German a.json had failed keys and the French one had none; the file
\* still holds the German ones
SidecarLeftAlone ==
    /\ drv.kind = "sync"
    /\ drv.at = "end"
    /\ Len(drv.out) = 2
    /\ HasSuffixStr(drv.out[2].path, <<"/">> \o AJson)
    /\ drv.out[1].failedKeys = <<"a">>
    /\ drv.out[2].loaded
    /\ drv.out[2].failedKeys = <<>>
    /\ SidecarOf(AJson).content = <<"a">>

====
